---- MODULE Spec2Model ----
(***************************************************************************)
(* Streaming speech capture (STTStream, src/stt_lib/stt_lib.cpp).          *)
(*                                                                         *)
(* Units.  One model time unit is 1000 ms and one model sample is the      *)
(* audio of one time unit, so n_samples_x = x_ms.  Thresholds and energies *)
(* of AdaptiveVAD are fixed-point numbers in units of 1e-4.                *)
(* A captured sample is written as 1 + the number of pause() calls that    *)
(* had completed when it was captured; 0 is the 0.0f of a zero-filled      *)
(* vector.                                                                 *)
(***************************************************************************)
EXTENDS Integers, Sequences, FiniteSets, TLC

\* ---- bounds of the model
MaxStep == 2
MaxLen == 3
MaxKeep == 1
MaxRetry == 2
MaxPauses == 1
MaxTime == 4
MaxIter == 2
MaxDetect == 4
MaxStreamDetect == 1
MaxCtx == 1
MaxTokens == 3
MaxText == 3
MaxWord == 2
MaxSegs == 2
MaxStarts == 2
MaxSamples == 2
MaxAttempts == 4
MaxQueued == 4
MaxPolls == 2
TwinMaxCalls == 4

\* ---- program constants
n_samples_30s == 30
VAD_GATE == 2
VAD_DRAIN == 2
INITIAL_THOLD == 6000
MIN_THRESHOLD == 3000
MAX_THRESHOLD == 8000
HIST_SIZE == 50
MIN_HISTORY == 10
ENERGY_THOLD == 1
EPSILON == 1
RATE_DEN == 10
TARGET_BASE == 5000
TARGET_SPAN == 3000
CALLBACK_LEN == 1
BACKOFF_MS == 100
BACKLOG_SLEEP_MS == 100
POLL_SLEEP_CLASS == 20
POLL_SLEEP_FREE == 1

VARIABLES
    params,          \* whisper_params: the configuration
    audio,           \* impl->audio # nullptr
    m_running,       \* capture device is capturing
    m_audio,         \* capture device's buffered samples
    ctx,             \* impl->ctx # nullptr
    vad,             \* impl->vad # nullptr
    threshold,       \* AdaptiveVAD::threshold
    recent_energies, \* AdaptiveVAD::recent_energies
    pcmf32, pcmf32_old, pcmf32_new, prompt_tokens,
    initialized, paused, running,
    n_samples_step, n_samples_len, n_samples_keep, use_vad, n_new_line,
    n_iter, t_last,
    emitted,         \* the tokens of all decoded windows, newest max_context_tokens of them
    t_decoded,       \* when the last successful whisper_full returned, -1 if none
    now,             \* the last reading of the clock
    pc,              \* position of the thread driving listen_for
    lv,              \* listen_for's locals
    cpc,             \* position of the thread calling pause/resume
    ret,             \* what the last listen_for call returned
    sub,             \* the last window handed to whisper_full
    pause_seq,       \* how many times pause() has set the paused flag
    ub,              \* a vector was accessed outside its bounds
    concurrent,      \* pause/resume run on a thread of their own
    n_detect,        \* detect() calls made (AdaptiveVAD on its own)
    energy,          \* AdaptiveVAD::detect: the energy of the last window, -1 before the first
    ops,             \* the last two calls of the API that have returned
    acquired,        \* per resource, how many times it was allocated
    released,        \* per resource, how many times it was freed
    n_start,         \* start_stream() calls made
    tokens, max_tokens, before, n_prune,  \* prune_context_tokens on its own
    trig_segs, trig_word, trig_match, n_trig,  \* the segment loop on its own
    synth,           \* TTSEngine::Impl::synth # nullptr
    m_buffer,        \* sdl_player: the samples handed to play()
    m_buffer_pos,    \* sdl_player: how many of them the device has taken
    m_is_playing,    \* sdl_player: playback in progress
    queued,          \* every sample sdl_player::play has queued, in order
    handed,          \* every sample audio_callback has copied to the device
    tpc,             \* position of the command loop inside TTSEngine::play
    rt,              \* process_audio_with_retry on its own: arguments, locals, result
    twin             \* the class API and the free-function API side by side, per API its state

lifeVars == <<acquired, released, n_start>>
derivedVars == <<n_samples_step, n_samples_len, n_samples_keep, use_vad, n_new_line>>
deviceVars == <<audio, m_running, m_audio>>
vadVars == <<vad, threshold, recent_energies>>
bufVars == <<pcmf32, pcmf32_old, pcmf32_new>>
flagVars == <<initialized, paused, running>>
pruneVars == <<tokens, max_tokens, before, n_prune>>
triggerVars == <<trig_segs, trig_word, trig_match, n_trig>>
playerVars == <<synth, m_buffer, m_buffer_pos, m_is_playing, queued, handed, tpc>>
retryVars == <<rt>>
twinVars == <<twin>>
aloneVars == <<pruneVars, triggerVars, playerVars, retryVars, twinVars>>
streamVars == <<params, derivedVars, lifeVars, deviceVars, ctx, bufVars, prompt_tokens,
                flagVars, n_iter, emitted, t_last, t_decoded, now, pc, lv, cpc, ret, sub, pause_seq, ub,
                concurrent, ops>>
vars == <<streamVars, vadVars, n_detect, energy, aloneVars>>

\* ---- helpers
Min(a, b) == IF a < b THEN a ELSE b
Max(a, b) == IF a > b THEN a ELSE b
Zeros(n) == [i \in 1..n |-> 0]
Suffix(s, n) == SubSeq(s, Len(s) - n + 1, Len(s))

\* std::vector<float>::resize(n, 0.0f)
Resize(s, n) == [i \in 1..n |-> IF i <= Len(s) THEN s[i] ELSE 0]

\* (1e-3 * ms) * WHISPER_SAMPLE_RATE, in model samples
n_samples(ms) == ms

\* ---- AdaptiveVAD
\* std::sort of line 64: position i holds the i-th smallest energy
SortedSeq_none(s) == s

SortedSeq(s) ==
    [i \in 1..Len(s) |->
        CHOOSE x \in {s[j] : j \in 1..Len(s)} :
            /\ Cardinality({j \in 1..Len(s) : s[j] < x}) < i
            /\ i <= Cardinality({j \in 1..Len(s) : s[j] <= x})]

Clamp_none(t) == t

\* std::max(min_threshold, std::min(max_threshold, threshold)) of line 74
Clamp(t) == Max(MIN_THRESHOLD, Min(MAX_THRESHOLD, t))

\* lines 66-68: sorted[k * size / 4], k = 1 for q1, 2 for the median, 3 for q3
Quartile(sorted, k) == sorted[((k * Len(sorted)) \div 4) + 1]

\* the target of line 71; sorted is the sorted history
Target(sorted) ==
    LET median == Quartile(sorted, 2)
        q1 == Quartile(sorted, 1)
        q3 == Quartile(sorted, 3)
    IN  TARGET_BASE + ((median - q1) * TARGET_SPAN) \div (q3 - q1 + EPSILON)

adapt_threshold(thr, hist) ==
    IF Len(hist) < MIN_HISTORY THEN thr
    ELSE Clamp((thr * (RATE_DEN - 1) + Target(SortedSeq(hist))) \div RATE_DEN)

record_energy_second(hist, e) ==
    IF e > ENERGY_THOLD
    THEN LET h == Append(hist, e)
         IN  IF Len(h) > HIST_SIZE THEN <<h[1]>> \o Tail(Tail(h)) ELSE h
    ELSE hist

\* the history after detect() has seen a window of mean squared energy e
record_energy(hist, e) ==
    IF e > ENERGY_THOLD
    THEN LET h == Append(hist, e)
         IN  IF Len(h) > HIST_SIZE THEN Tail(h) ELSE h
    ELSE hist

detect_threshold_always(thr, hist, e) == adapt_threshold(thr, record_energy(hist, e))

detect_threshold(thr, hist, e) ==
    IF e > ENERGY_THOLD THEN adapt_threshold(thr, record_energy(hist, e)) ELSE thr

\* ---- InferenceInvoker / ContextManager helpers
prune_nothing(toks, max) == toks

prune_oldest_kept(toks, max) ==
    IF Len(toks) <= max THEN toks ELSE SubSeq(toks, 1, max)

\* lines 197-204
prune_context_tokens(toks, max) ==
    IF Len(toks) <= max THEN toks
    ELSE SubSeq(toks, Len(toks) - max + 1, Len(toks))

\* ---- configurations and inputs
StepSet == 0..MaxStep
LenSet == 1..MaxLen
KeepSet == 0..MaxKeep
RetrySet == 0..MaxRetry
CtxSet == 1..MaxCtx

\* a parameter the configuration never reads is held at one value
Canonical(c) ==
    /\ ~c.lang_known =>
          /\ c.step_ms = 0 /\ c.length_ms = 1 /\ c.max_retry_attempts = 0
          /\ c.adaptive_vad
    /\ c.step_ms <= 0 => c.keep_ms = 0 /\ c.no_context
    /\ c.step_ms > 0 => c.adaptive_vad
    /\ c.no_context => c.max_context_tokens = 1

Configs ==
    {c \in [step_ms : StepSet, length_ms : LenSet, keep_ms : KeepSet,
            max_retry_attempts : RetrySet, max_context_tokens : CtxSet,
            no_context : BOOLEAN, adaptive_vad : BOOLEAN, lang_known : BOOLEAN,
            vad_thold : {INITIAL_THOLD}] : Canonical(c)}

LvInit ==
    [trigger |-> <<>>, n_samples_new |-> 0, n_samples_take |-> 0, attempt |-> 0,
     t_now |-> 0, built_seq |-> 0, results |-> <<>>, segs |-> <<>>,
     is_speech |-> FALSE, got_quit |-> FALSE, seg_i |-> 0]

SubInit == [valid |-> FALSE, win |-> <<>>, n_new |-> 0, built_seq |-> 0,
            call_seq |-> 0, done_seq |-> 0, active |-> 0]

\* number of pause() calls that have run to completion
PauseSteps == {"P560", "P561", "P564", "P565", "P566"}
ResumeSteps == {"R575", "R578", "R579", "R580", "R582"}
Epoch == IF cpc \in PauseSteps THEN pause_seq - 1 ELSE pause_seq

\* ---- state of a default-constructed Impl, before the constructor body
NoResources == [audio |-> 0, ctx |-> 0, vad |-> 0]

ImplState(conc, configs, start) ==
    /\ params \in configs
    /\ audio = FALSE /\ m_running = FALSE /\ m_audio = <<>>
    /\ ctx = FALSE
    /\ vad = FALSE /\ threshold = INITIAL_THOLD /\ recent_energies = <<>>
    /\ pcmf32 = <<>> /\ pcmf32_old = <<>> /\ pcmf32_new = <<>>
    /\ prompt_tokens = <<>>
    /\ initialized = FALSE /\ paused = FALSE /\ running = FALSE
    /\ n_samples_step = 0 /\ n_samples_len = 0 /\ n_samples_keep = 0
    /\ use_vad = FALSE /\ n_new_line = 0
    /\ n_iter = 0 /\ emitted = <<>> /\ t_last = 0 /\ t_decoded = -1 /\ now = 0
    /\ pc = start /\ lv = LvInit /\ cpc = "idle" /\ ret = "none"
    /\ sub = SubInit /\ pause_seq = 0 /\ ub = FALSE
    /\ concurrent = conc
    /\ ops = <<"none", "none">>
    /\ acquired = NoResources /\ released = NoResources /\ n_start = 0

\* a stream object about to be constructed
ImplInit(conc, configs) == ImplState(conc, configs, "ctor")

PruneIdle == tokens = <<>> /\ max_tokens = 0 /\ before = <<>> /\ n_prune = 0
TriggerIdle ==
    trig_segs = <<>> /\ trig_word = <<>> /\ trig_match = FALSE /\ n_trig = 0

\* an sdl_player with nothing queued
PlayerIdle ==
/\ m_buffer = <<>> /\ m_buffer_pos = 0 /\ m_is_playing = FALSE /\ tpc = "idle"
    /\ queued = <<>> /\ handed = <<>>
PlayerAbsent == synth = FALSE /\ PlayerIdle
RetryState(max) ==
    [max_attempts |-> max, attempt |-> 0, results |-> <<>>, sleeps |-> <<>>,
     at |-> "L181", returned |-> FALSE]
RetryIdle == rt = RetryState(0)

\* no stream of either API exists
TwinIdle == twin = <<>>

AloneInit ==
    /\ n_detect = 0 /\ energy = -1
    /\ PruneIdle
    /\ TriggerIdle /\ TwinIdle
    /\ PlayerAbsent
    /\ RetryIdle

Init == ImplInit(FALSE, Configs) /\ AloneInit

\* configurations as the caller may write them, before any normalisation
RawConfigs ==
    [step_ms : {-1, 0, MaxStep}, length_ms : {1, MaxLen},
     keep_ms : {0, 1, MaxLen}, max_retry_attempts : {1},
     max_context_tokens : {1}, no_context : {TRUE}, adaptive_vad : {FALSE},
     lang_known : {TRUE}, vad_thold : {INITIAL_THOLD}]
InitParams == ImplInit(FALSE, RawConfigs) /\ AloneInit

\* pause/resume on a second thread: one fixed-step and one VAD configuration
ConcConfigs ==
    {c \in Configs : /\ c.lang_known /\ c.no_context /\ c.adaptive_vad
                     /\ c.max_retry_attempts = 1 /\ c.length_ms = MaxLen
                     /\ c.step_ms <= 1 /\ c.keep_ms = c.step_ms}

InitConc == ImplInit(TRUE, ConcConfigs) /\ AloneInit

\* the static StreamState of the free-function API, before start_stream
LifeConfigs == ConcConfigs \union {c \in Configs : ~c.lang_known}
InitLife == ImplState(FALSE, LifeConfigs, "idle") /\ AloneInit

\* ---- capture device (audio_async), from its interface
audio_capacity == n_samples_len

Capture ==
    /\ ~ub
    /\ audio /\ m_running
    /\ m_audio' = LET q == Append(m_audio, Epoch + 1)
                  IN  IF Len(q) > audio_capacity THEN Tail(q) ELSE q
    /\ UNCHANGED <<params, derivedVars, lifeVars, audio, m_running, ctx, bufVars,
                   prompt_tokens, flagVars, n_iter, emitted, t_last, t_decoded, now, pc, lv, cpc,
                   ret, sub, pause_seq, ub, concurrent, ops, vadVars,
                   n_detect, energy, aloneVars>>

\* what get(ms, result) may leave in result: the last ms of the buffered
\* samples, or all of them
audio_get(ms) == {Suffix(m_audio, Min(n_samples(ms), Len(m_audio))), m_audio}

\* ---- initialization
\* what the initialization leaves alone when it stops at once
InitUntouched ==
    UNCHANGED <<params, derivedVars, deviceVars, ctx, vad, threshold,
                recent_energies, pcmf32, pcmf32_new, pcmf32_old, prompt_tokens,
                initialized, running, paused, t_last, t_decoded, acquired, released>>

unwound_kept(r) == r

\* delete r; r = nullptr
unwound(r) == FALSE

normalised_keep_none(keep, step) == keep

\* line 262 and its copies: keep_ms = min(keep_ms, step_ms)
normalised_keep(keep, step) == Min(keep, step)

\* lines 263-264 and their copies: length_ms = max(length_ms, step_ms)
normalised_len(len, step) == Max(len, step)

\* lines 253-342, the body shared by STTStream::STTStream and start_stream
initialize ==
    IF ~params.lang_known
    THEN InitUntouched
    ELSE LET keep == normalised_keep(params.keep_ms, params.step_ms)
             len == normalised_len(params.length_ms, params.step_ms)
             vadmode == n_samples(params.step_ms) <= 0
         IN  /\ n_samples_step' = n_samples(params.step_ms)
             /\ n_samples_len' = n_samples(len)
             /\ n_samples_keep' = n_samples(keep)
             /\ use_vad' = vadmode
             /\ n_new_line' = IF ~vadmode
                              THEN Max(1, (len \div params.step_ms) - 1)
                              ELSE 1
             /\ params' = [params EXCEPT !.keep_ms = keep, !.length_ms = len,
                                         !.no_context = @ \/ vadmode]
             /\ \E audio_ok \in BOOLEAN, model_ok \in BOOLEAN, vad_ok \in BOOLEAN :
                  IF ~audio_ok
                  THEN \* lines 284-289: init() failed
                       /\ audio' = unwound(TRUE)
                       /\ acquired' = [acquired EXCEPT !.audio = @ + 1]
                       /\ released' = [released EXCEPT !.audio = @ + 1]
                       /\ UNCHANGED <<m_running, m_audio, ctx, vad, threshold,
                                      recent_energies, bufVars, prompt_tokens,
                                      initialized, running, paused, t_last, t_decoded>>
                  ELSE IF ~model_ok \/ ~vad_ok
                  THEN \* lines 321-342: WhisperContext or a later allocation threw
                       /\ audio' = unwound(TRUE) /\ m_running' = FALSE
                       /\ m_audio' = <<>>
                       /\ ctx' = unwound(model_ok) /\ vad' = unwound(FALSE)
                       /\ acquired' = [acquired EXCEPT
                                          !.audio = @ + 1,
                                          !.ctx = IF model_ok THEN @ + 1 ELSE @]
                       /\ released' = [released EXCEPT
                                          !.audio = @ + 1,
                                          !.ctx = IF model_ok THEN @ + 1 ELSE @]
                       /\ pcmf32' = <<>> /\ pcmf32_new' = <<>>
                       /\ pcmf32_old' = <<>> /\ prompt_tokens' = <<>>
                       /\ UNCHANGED <<threshold, recent_energies, initialized,
                                      running, paused, t_last, t_decoded>>
                  ELSE /\ audio' = TRUE /\ m_running' = TRUE /\ m_audio' = <<>>
                       /\ ctx' = TRUE
                       /\ pcmf32' = Resize(pcmf32, n_samples_30s)
                       /\ pcmf32_new' = Resize(pcmf32_new, n_samples_30s)
                       /\ vad' = TRUE /\ threshold' = params.vad_thold
                       /\ recent_energies' = <<>>
                       /\ acquired' = [audio |-> acquired.audio + 1,
                                       ctx |-> acquired.ctx + 1,
                                       vad |-> acquired.vad + 1]
                       /\ initialized' = TRUE /\ running' = TRUE
                       /\ paused' = FALSE
                       /\ t_last' = now /\ UNCHANGED t_decoded
                       /\ UNCHANGED <<released, pcmf32_old, prompt_tokens>>

\* ---- STTStream::STTStream
STTStream_ctor ==
    /\ pc = "ctor"
    /\ pc' = "idle"
    /\ initialize
    /\ UNCHANGED <<lv, cpc, ret, sub, pause_seq, ub, concurrent, ops, n_iter, emitted, now,
                   n_detect, energy, aloneVars, n_start>>

\* ---- STTStream::pause, one action per statement
CtlUnchanged ==
    UNCHANGED <<params, derivedVars, lifeVars, ctx, prompt_tokens, initialized,
                running,
                n_iter, emitted, t_last, t_decoded, now, pc, lv, ret, sub, ub, concurrent, vadVars,
                n_detect, energy, aloneVars>>

Done(op) == ops' = <<ops[2], op>>

cleared_kept(v) == v

\* std::vector::clear
cleared(v) == <<>>

P557_flag_late ==
    /\ ~ub
    /\ pc # "ctor" /\ cpc = "idle"
    /\ concurrent \/ pc = "idle"
    /\ pause_seq < MaxPauses
    /\ pause_seq' = pause_seq + 1
    /\ cpc' = "P560"
    /\ UNCHANGED <<deviceVars, bufVars, paused>>
    /\ UNCHANGED ops
    /\ CtlUnchanged

\* line 557
P557_set_paused ==
    /\ ~ub
    /\ pc # "ctor" /\ cpc = "idle"
    /\ concurrent \/ pc = "idle"
    /\ pause_seq < MaxPauses
    /\ paused' = TRUE
    /\ pause_seq' = pause_seq + 1
    /\ cpc' = "P560"
    /\ UNCHANGED <<deviceVars, bufVars>>
    /\ UNCHANGED ops
    /\ CtlUnchanged

P560_audio_pause ==
    /\ ~ub
    /\ cpc = "P560"
    /\ m_running' = IF audio THEN FALSE ELSE m_running
    /\ cpc' = "P561"
    /\ UNCHANGED <<audio, m_audio, bufVars, paused, pause_seq>>
    /\ UNCHANGED ops
    /\ CtlUnchanged

P561_audio_clear ==
    /\ ~ub
    /\ cpc = "P561"
    /\ m_audio' = IF audio THEN <<>> ELSE m_audio
    /\ cpc' = "P564"
    /\ UNCHANGED <<audio, m_running, bufVars, paused, pause_seq>>
    /\ UNCHANGED ops
    /\ CtlUnchanged

P564_clear_pcmf32 ==
    /\ ~ub
    /\ cpc = "P564"
    /\ pcmf32' = cleared(pcmf32)
    /\ cpc' = "P565"
    /\ UNCHANGED <<deviceVars, pcmf32_old, pcmf32_new, paused, pause_seq>>
    /\ UNCHANGED ops
    /\ CtlUnchanged

P565_clear_old ==
    /\ ~ub
    /\ cpc = "P565"
    /\ pcmf32_old' = cleared(pcmf32_old)
    /\ cpc' = "P566"
    /\ UNCHANGED <<deviceVars, pcmf32, pcmf32_new, paused, pause_seq>>
    /\ UNCHANGED ops
    /\ CtlUnchanged

P566_clear_new ==
    /\ ~ub
    /\ cpc = "P566"
    /\ pcmf32_new' = cleared(pcmf32_new)
    /\ cpc' = "idle"
    /\ UNCHANGED <<deviceVars, pcmf32, pcmf32_old, paused, pause_seq>>
    /\ Done("pause")
    /\ CtlUnchanged

\* ---- STTStream::resume, one action per statement
R574_audio_clear ==
    /\ ~ub
    /\ pc # "ctor" /\ cpc = "idle"
    /\ concurrent \/ pc = "idle"
    /\ m_audio' = IF audio THEN <<>> ELSE m_audio
    /\ cpc' = "R575"
    /\ UNCHANGED <<audio, m_running, bufVars, paused, pause_seq>>
    /\ UNCHANGED ops
    /\ CtlUnchanged

R575_audio_resume ==
    /\ ~ub
    /\ cpc = "R575"
    /\ m_running' = IF audio THEN TRUE ELSE m_running
    /\ cpc' = "R578"
    /\ UNCHANGED <<audio, m_audio, bufVars, paused, pause_seq>>
    /\ UNCHANGED ops
    /\ CtlUnchanged

R578_clear_pcmf32 ==
    /\ ~ub
    /\ cpc = "R578"
    /\ pcmf32' = cleared(pcmf32)
    /\ cpc' = "R579"
    /\ UNCHANGED <<deviceVars, pcmf32_old, pcmf32_new, paused, pause_seq>>
    /\ UNCHANGED ops
    /\ CtlUnchanged

R579_clear_old ==
    /\ ~ub
    /\ cpc = "R579"
    /\ pcmf32_old' = cleared(pcmf32_old)
    /\ cpc' = "R580"
    /\ UNCHANGED <<deviceVars, pcmf32, pcmf32_new, paused, pause_seq>>
    /\ UNCHANGED ops
    /\ CtlUnchanged

R580_clear_new ==
    /\ ~ub
    /\ cpc = "R580"
    /\ pcmf32_new' = cleared(pcmf32_new)
    /\ cpc' = "R582"
    /\ UNCHANGED <<deviceVars, pcmf32, pcmf32_old, paused, pause_seq>>
    /\ UNCHANGED ops
    /\ CtlUnchanged

R582_clear_paused ==
    /\ ~ub
    /\ cpc = "R582"
    /\ paused' = FALSE
    /\ cpc' = "idle"
    /\ UNCHANGED <<deviceVars, bufVars, pause_seq>>
    /\ Done("resume")
    /\ CtlUnchanged

\* ---- inputs of a listen_for cycle
SampleVals == 0..(MaxPauses + 1)
Energies == {0, 2, 9}
StreamEnergies == {0, 2}
Texts == {<<"x">>, <<"x", "A", "b">>}
TriggerWords == {<<"a", "B">>}
Seg(text, toks) == [text |-> text, toks |-> toks]
SegLists ==
    {<<>>, <<Seg(<<"x">>, <<1>>)>>,
     <<Seg(<<"x">>, <<2, 3>>), Seg(<<"x">>, <<1>>)>>,
     <<Seg(<<"x">>, <<1>>), Seg(<<"x", "A", "b">>, <<2, 3>>)>>,
     <<Seg(<<"x", "A", "b">>, <<1>>), Seg(<<"x">>, <<2>>)>>}

to_lowercase_none(str) == str

\* std::tolower on every character
to_lowercase(str) ==
    [i \in 1..Len(str) |->
        IF str[i] = "A" THEN "a" ELSE IF str[i] = "B" THEN "b" ELSE str[i]]

\* std::string::find(trigger) != npos on the lower-cased strings
contains_trigger(text, trigger) ==
    LET t == to_lowercase(text)
        w == to_lowercase(trigger)
    IN  \E k \in 0..(Len(t) - Len(w)) :
            \A j \in 1..Len(w) : t[k + j] = w[j]

segment_loop_first(segs, trigger) ==
    segs # <<>> /\ contains_trigger(segs[1].text, trigger)

\* lines 491-519: the loop returns true at the first segment with the trigger
segment_loop(segs, trigger) ==
    \E i \in 1..Len(segs) : contains_trigger(segs[i].text, trigger)

RECURSIVE segment_tokens(_)
segment_tokens(segs) ==
    IF segs = <<>> THEN <<>> ELSE Head(segs).toks \o segment_tokens(Tail(segs))

n_samples_take_all(n_old, n_new) == n_old

n_samples_take_len(n_old, n_new) ==
    Min(n_old, Max(0, n_samples_len - n_new))

\* n_samples_take of lines 399-402
n_samples_take(n_old, n_new) ==
    Min(n_old, Max(0, n_samples_keep + n_samples_len - n_new))

\* ---- STTStream::listen_for, one action per shared access
LsnFrame ==
    UNCHANGED <<params, derivedVars, lifeVars, audio, m_running, ctx, vad,
                initialized,
                paused, cpc, pause_seq, concurrent, n_detect, energy, aloneVars>>

Return(v) ==
    /\ pc' = "idle" /\ ret' = v /\ lv' = LvInit /\ sub' = SubInit
    /\ Done("listen")
Goto(l) == pc' = l /\ UNCHANGED <<ret, lv, sub, ops>>

listen_call ==
    /\ ~ub
    /\ pc = "idle"
    /\ concurrent \/ cpc = "idle"
    /\ n_iter < MaxIter /\ n_detect < MaxStreamDetect
    /\ \E trig \in TriggerWords : lv' = [LvInit EXCEPT !.trigger = trig]
    /\ pc' = "L356" /\ ret' = "none" /\ sub' = SubInit
    /\ UNCHANGED ops
    /\ UNCHANGED <<m_audio, threshold, recent_energies, bufVars, prompt_tokens,
                   running, n_iter, emitted, t_last, t_decoded, now, ub>>
    /\ LsnFrame

L356_initialized ==
    /\ ~ub
    /\ pc = "L356"
    /\ IF ~initialized THEN Return("false") ELSE Goto("L361")
    /\ UNCHANGED <<m_audio, threshold, recent_energies, bufVars, prompt_tokens,
                   running, n_iter, emitted, t_last, t_decoded, now, ub>>
    /\ LsnFrame

L361_paused_skipped ==
    /\ ~ub
    /\ pc = "L361"
    /\ Goto("L365")
    /\ UNCHANGED <<m_audio, threshold, recent_energies, bufVars, prompt_tokens,
                   running, n_iter, emitted, t_last, t_decoded, now, ub>>
    /\ LsnFrame

\* lines 361-363
L361_paused ==
    /\ ~ub
    /\ pc = "L361"
    /\ IF paused THEN Return("false") ELSE Goto("L365")
    /\ UNCHANGED <<m_audio, threshold, recent_energies, bufVars, prompt_tokens,
                   running, n_iter, emitted, t_last, t_decoded, now, ub>>
    /\ LsnFrame

quit_seen_never(got_quit) == FALSE

\* the tests of lines 366 and 373
quit_seen(got_quit) == got_quit

\* line 365: bool got_quit = !sdl_poll_events()
L365_poll ==
    /\ ~ub
    /\ pc = "L365"
    /\ \E got_quit \in BOOLEAN : lv' = [lv EXCEPT !.got_quit = got_quit]
    /\ pc' = "L366"
    /\ UNCHANGED <<ret, sub, ops>>
    /\ UNCHANGED <<m_audio, threshold, recent_energies, bufVars, prompt_tokens,
                   running, n_iter, emitted, t_last, t_decoded, now, ub>>
    /\ LsnFrame

\* lines 366-371
L366_quit ==
    /\ ~ub
    /\ pc = "L366"
    /\ IF quit_seen(lv.got_quit)
       THEN running' = FALSE /\ Return("false")
       ELSE /\ Goto(IF use_vad THEN "L415" ELSE "L373")
            /\ UNCHANGED running
    /\ UNCHANGED <<m_audio, threshold, recent_energies, bufVars, prompt_tokens,
                   n_iter, emitted, t_last, t_decoded, now, ub>>
    /\ LsnFrame

\* line 373: the value of !sdl_poll_events()
L373_poll ==
    /\ ~ub
    /\ pc = "L373"
    /\ \E got_quit \in BOOLEAN : lv' = [lv EXCEPT !.got_quit = got_quit]
    /\ pc' = "L374"
    /\ UNCHANGED <<ret, sub, ops>>
    /\ UNCHANGED <<m_audio, threshold, recent_energies, bufVars, prompt_tokens,
                   running, n_iter, emitted, t_last, t_decoded, now, ub>>
    /\ LsnFrame

\* lines 373-376
L374_quit ==
    /\ ~ub
    /\ pc = "L374"
    /\ IF quit_seen(lv.got_quit)
       THEN running' = FALSE /\ Return("false")
       ELSE Goto("L378") /\ UNCHANGED running
    /\ UNCHANGED <<m_audio, threshold, recent_energies, bufVars, prompt_tokens,
                   n_iter, emitted, t_last, t_decoded, now, ub>>
    /\ LsnFrame

L378_paused ==
    /\ ~ub
    /\ pc = "L378"
    /\ IF paused THEN Return("false") ELSE Goto("L382")
    /\ UNCHANGED <<m_audio, threshold, recent_energies, bufVars, prompt_tokens,
                   running, n_iter, emitted, t_last, t_decoded, now, ub>>
    /\ LsnFrame

L382_get ==
    /\ ~ub
    /\ pc = "L382"
    /\ \E r \in audio_get(params.step_ms) : pcmf32_new' = r
    /\ lv' = [lv EXCEPT !.built_seq = pause_seq]
    /\ pc' = "L384"
    /\ UNCHANGED <<m_audio, threshold, recent_energies, pcmf32, pcmf32_old,
                   prompt_tokens, running, n_iter, emitted, t_last, t_decoded, now, ub, ret, sub, ops>>
    /\ LsnFrame

chunk_ready_never(n_new) == FALSE

backlogged_never(n_new) == FALSE

\* the test of line 384
backlogged(n_new) == n_new > 2 * n_samples_step

chunk_ready_always(n_new) == TRUE

\* the test of line 389
chunk_ready(n_new) == n_new >= n_samples_step

L384_backlog ==
    /\ ~ub
    /\ pc = "L384"
    /\ IF backlogged(Len(pcmf32_new))
       THEN m_audio' = <<>> /\ Goto("L373")
       ELSE IF chunk_ready(Len(pcmf32_new))
       THEN m_audio' = <<>> /\ Goto("L398")
       ELSE UNCHANGED m_audio /\ Goto("L373")
    /\ UNCHANGED <<threshold, recent_energies, bufVars, prompt_tokens, running,
                   n_iter, emitted, t_last, t_decoded, now, ub>>
    /\ LsnFrame

L398_take ==
    /\ ~ub
    /\ pc = "L398"
    /\ lv' = [lv EXCEPT !.n_samples_new = Len(pcmf32_new),
                        !.n_samples_take =
                            n_samples_take(Len(pcmf32_old), Len(pcmf32_new))]
    /\ pc' = "L404"
    /\ UNCHANGED <<m_audio, threshold, recent_energies, bufVars, prompt_tokens,
                   running, n_iter, emitted, t_last, t_decoded, now, ub, ret, sub, ops>>
    /\ LsnFrame

L404_resize ==
    /\ ~ub
    /\ pc = "L404"
    /\ pcmf32' = Resize(pcmf32, lv.n_samples_new + lv.n_samples_take)
    /\ Goto("L406")
    /\ UNCHANGED <<m_audio, threshold, recent_energies, pcmf32_old, pcmf32_new,
                   prompt_tokens, running, n_iter, emitted, t_last, t_decoded, now, ub>>
    /\ LsnFrame

\* the loop of lines 406-409; a read outside pcmf32_old yields any value, a
\* write outside pcmf32 is lost
L406_copy_tail ==
    /\ ~ub
    /\ pc = "L406"
    /\ LET take == lv.n_samples_take
           bad == take > 0 /\ (Len(pcmf32_old) < take \/ Len(pcmf32) < take)
       IN  /\ \E v \in (IF bad THEN SampleVals ELSE {0}) :
                pcmf32' = [i \in 1..Len(pcmf32) |->
                             IF i <= take
                             THEN IF Len(pcmf32_old) - take + i >= 1
                                  THEN pcmf32_old[Len(pcmf32_old) - take + i]
                                  ELSE v
                             ELSE pcmf32[i]]
           /\ ub' = (ub \/ bad)
    /\ Goto("L411")
    /\ UNCHANGED <<m_audio, threshold, recent_energies, pcmf32_old, pcmf32_new,
                   prompt_tokens, running, n_iter, emitted, t_last, t_decoded, now>>
    /\ LsnFrame

\* the memcpy of lines 411-412
L411_copy_new ==
    /\ ~ub
    /\ pc = "L411"
    /\ LET take == lv.n_samples_take
           new == lv.n_samples_new
           bad == new > 0 /\ (Len(pcmf32_new) < new \/ Len(pcmf32) < take + new)
       IN  /\ \E v \in (IF bad THEN SampleVals ELSE {0}) :
                pcmf32' = [i \in 1..Len(pcmf32) |->
                             IF i > take /\ i <= take + new
                             THEN IF i - take <= Len(pcmf32_new)
                                  THEN pcmf32_new[i - take]
                                  ELSE v
                             ELSE pcmf32[i]]
           /\ ub' = (ub \/ bad)
    /\ Goto("L413")
    /\ UNCHANGED <<m_audio, threshold, recent_energies, pcmf32_old, pcmf32_new,
                   prompt_tokens, running, n_iter, emitted, t_last, t_decoded, now>>
    /\ LsnFrame

L413_store_old ==
    /\ ~ub
    /\ pc = "L413"
    /\ pcmf32_old' = pcmf32
    /\ Goto("L181")
    /\ UNCHANGED <<m_audio, threshold, recent_energies, pcmf32, pcmf32_new,
                   prompt_tokens, running, n_iter, emitted, t_last, t_decoded, now, ub>>
    /\ LsnFrame

\* lines 415-422: the 2000 ms gate of VAD mode
L415_gate ==
    /\ ~ub
    /\ pc = "L415"
    /\ \E t \in now..MaxTime :
         /\ now' = t
         /\ IF t - t_last < VAD_GATE
            THEN Return("false")
            ELSE pc' = "L424" /\ lv' = [lv EXCEPT !.t_now = t]
                              /\ UNCHANGED <<ret, sub, ops>>
    /\ UNCHANGED <<m_audio, threshold, recent_energies, bufVars, prompt_tokens,
                   running, n_iter, emitted, t_last, t_decoded, ub>>
    /\ LsnFrame

L424_get ==
    /\ ~ub
    /\ pc = "L424"
    /\ \E r \in audio_get(VAD_DRAIN) : pcmf32_new' = r
    /\ Goto("L427")
    /\ UNCHANGED <<m_audio, threshold, recent_energies, pcmf32, pcmf32_old,
                   prompt_tokens, running, n_iter, emitted, t_last, t_decoded, now, ub>>
    /\ LsnFrame

\* lines 426-435: the voice-activity test
L427_vad ==
    /\ ~ub
    /\ pc = "L427"
    /\ \E speech \in BOOLEAN,
          e \in (IF pcmf32_new = <<>> \/ ~params.adaptive_vad
                 THEN {0} ELSE StreamEnergies) :
         /\ IF params.adaptive_vad
            THEN /\ recent_energies' = record_energy(recent_energies, e)
                 /\ threshold' = detect_threshold(threshold, recent_energies, e)
                 /\ n_detect' = n_detect + 1
                 /\ energy' = e
            ELSE UNCHANGED <<threshold, recent_energies, n_detect, energy>>
         /\ lv' = [lv EXCEPT !.is_speech = speech]
    /\ pc' = "L437"
    /\ UNCHANGED <<m_audio, bufVars, prompt_tokens, running, n_iter, emitted, t_last, t_decoded,
                   now, ub, ret, sub, ops>>
    /\ UNCHANGED <<params, derivedVars, lifeVars, audio, m_running, ctx, vad,
                initialized,
                   paused, cpc, pause_seq, concurrent, aloneVars>>

gate_open_always(is_speech) == TRUE

\* the test of line 437
gate_open(is_speech) == is_speech

\* lines 437-443: the window of length_ms, or the end of the cycle
L437_speech ==
    /\ ~ub
    /\ pc = "L437"
    /\ IF gate_open(lv.is_speech)
       THEN /\ \E r \in audio_get(params.length_ms) : pcmf32' = r
            /\ t_last' = lv.t_now /\ UNCHANGED t_decoded
            /\ lv' = [lv EXCEPT !.built_seq = pause_seq]
            /\ pc' = "L181"
            /\ UNCHANGED <<ret, sub, ops>>
       ELSE Return("false") /\ UNCHANGED <<pcmf32, t_last, t_decoded>>
    /\ UNCHANGED <<m_audio, threshold, recent_energies, pcmf32_old, pcmf32_new,
                   prompt_tokens, running, n_iter, emitted, now, ub>>
    /\ LsnFrame

retry_continues_le(attempt, max) == attempt <= max

\* the loop test of line 181
retry_continues(attempt, max) == attempt < max

\* process_audio_with_retry: the loop test of line 181 and the call of line 182
L181_attempt ==
    /\ ~ub
    /\ pc = "L181"
    /\ IF retry_continues(lv.attempt, params.max_retry_attempts)
       THEN /\ sub' = [valid |-> TRUE, win |-> pcmf32,
                       n_new |-> lv.n_samples_new,
                       built_seq |-> lv.built_seq, call_seq |-> pause_seq,
                       done_seq |-> Epoch, active |-> sub.active + 1]
            /\ pc' = "L182"
            /\ UNCHANGED <<ret, lv, ops>>
       ELSE Goto("L471")
    /\ UNCHANGED <<m_audio, threshold, recent_energies, bufVars, prompt_tokens,
                   running, n_iter, emitted, t_last, t_decoded, now, ub>>
    /\ LsnFrame

L471_failed_fatal ==
    /\ ~ub
    /\ pc = "L471"
    /\ Return("false")
    /\ running' = FALSE
    /\ UNCHANGED <<m_audio, threshold, recent_energies, bufVars, prompt_tokens,
                   n_iter, emitted, t_last, t_decoded, now, ub>>
    /\ LsnFrame

\* lines 469-472: every attempt failed, the cycle ends without a result
L471_failed ==
    /\ ~ub
    /\ pc = "L471"
    /\ Return("false")
    /\ UNCHANGED <<m_audio, threshold, recent_energies, bufVars, prompt_tokens,
                   running, n_iter, emitted, t_last, t_decoded, now, ub>>
    /\ LsnFrame

\* whisper_full returns; lines 184-191
returned_never(n) == n

\* whisper_full has returned: the calls still in progress
returned(n) == n - 1

L182_whisper_full ==
    /\ ~ub
    /\ pc = "L182"
    /\ sub' = [sub EXCEPT !.active = returned(@)]
    /\ \E result \in {0, 1} :
         IF result = 0
         THEN \* the call takes time; only VAD mode ever reads the clock
              \E segs \in SegLists,
                 t \in (IF use_vad THEN now..MaxTime ELSE {now}) :
                /\ lv' = [lv EXCEPT !.results = Append(@, result), !.segs = segs]
                /\ t_decoded' = t /\ now' = t
                /\ pc' = "L491"
         ELSE /\ lv' = [lv EXCEPT !.results = Append(@, result),
                                  !.attempt = @ + 1]
              /\ pc' = "L181"
              /\ UNCHANGED <<t_decoded, now>>
    /\ UNCHANGED <<ret, ops>>
    /\ UNCHANGED <<m_audio, threshold, recent_energies, bufVars, prompt_tokens,
                   running, n_iter, emitted, t_last, ub>>
    /\ LsnFrame

\* lines 491-528: the segment loop, the iteration counter, the n_new_line test
next_segment_skip(i) == i + 2

\* ++i of line 492
next_segment(i) == i + 1

\* lines 492-526: one pass of the segment loop, or what follows its end
L491_segments ==
    /\ ~ub
    /\ pc = "L491"
    /\ LET done == lv.seg_i >= Len(lv.segs)
           hit == ~done /\ contains_trigger(lv.segs[lv.seg_i + 1].text, lv.trigger)
       IN  /\ IF hit
              THEN Return("true")
              ELSE IF ~done
              THEN /\ lv' = [lv EXCEPT !.seg_i = next_segment(@)]
                   /\ UNCHANGED <<pc, ret, sub, ops>>
              ELSE IF ~use_vad /\ (n_iter + 1) % n_new_line = 0
              THEN Goto("L530")
              ELSE Return("false")
           /\ IF hit \/ done
              THEN /\ n_iter' = n_iter + 1
                   /\ emitted' = IF ~use_vad /\ ~params.no_context
                                 THEN prune_context_tokens(
                                          emitted \o segment_tokens(lv.segs),
                                          params.max_context_tokens)
                                 ELSE emitted
              ELSE UNCHANGED <<n_iter, emitted>>
    /\ UNCHANGED <<m_audio, threshold, recent_energies, bufVars, prompt_tokens,
                   running, t_last, t_decoded, now, ub>>
    /\ LsnFrame

\* lines 530-547: keep the tail of the window, rebuild the context tokens
L530_keep_tail ==
    /\ ~ub
    /\ pc = "L530"
    /\ LET bad == Len(pcmf32) < n_samples_keep
       IN  /\ IF bad
              THEN \E v \in SampleVals : pcmf32_old' = [i \in 1..n_samples_keep |-> v]
              ELSE pcmf32_old' = Suffix(pcmf32, n_samples_keep)
           /\ ub' = (ub \/ bad)
    /\ prompt_tokens' =
         IF ~params.no_context
         THEN prune_context_tokens(segment_tokens(lv.segs),
                                   params.max_context_tokens)
         ELSE prompt_tokens
    /\ Return("false")
    /\ UNCHANGED <<m_audio, threshold, recent_energies, pcmf32, pcmf32_new,
                   running, n_iter, emitted, t_last, t_decoded, now>>
    /\ LsnFrame

\* ---- the end of the stream's life
freed_always(r, n) == n + 1

\* if (r) { delete r; }: the number of releases afterwards
freed(r, n) == IF r THEN n + 1 ELSE n

\* the three deletes of ~Impl, ~StreamState and stop_stream
release_all ==
    /\ released' = [audio |-> freed(audio, released.audio),
                    ctx |-> freed(ctx, released.ctx),
                    vad |-> freed(vad, released.vad)]
    /\ audio' = FALSE /\ m_running' = FALSE /\ m_audio' = <<>>
    /\ ctx' = FALSE /\ vad' = FALSE

LifeFrame ==
    UNCHANGED <<params, derivedVars, acquired, threshold, recent_energies,
                n_iter, emitted, t_last, t_decoded, now, lv, cpc, ret, sub, pause_seq, ub,
                concurrent, ops, n_detect, energy, aloneVars>>

\* STTStream::~STTStream and ~Impl
STTStream_dtor ==
    /\ ~ub
    /\ pc = "idle" /\ cpc = "idle"
    /\ running' = FALSE /\ initialized' = FALSE
    /\ release_all
    /\ pcmf32' = <<>> /\ pcmf32_old' = <<>> /\ pcmf32_new' = <<>>
    /\ prompt_tokens' = <<>>
    /\ pc' = "gone"
    /\ UNCHANGED <<paused, n_start>>
    /\ LifeFrame

\* start_stream of the free-function API
start_stream ==
    /\ ~ub
    /\ pc = "idle" /\ cpc = "idle"
    /\ n_start < MaxStarts
    /\ n_start' = n_start + 1
    /\ IF initialized THEN InitUntouched ELSE initialize
    /\ Done("start")
    /\ UNCHANGED <<pc, lv, cpc, ret, sub, pause_seq, ub, concurrent,
                   n_iter, emitted, now, n_detect, energy, aloneVars>>

\* stop_stream of the free-function API
stop_stream ==
    /\ ~ub
    /\ cpc = "idle"
    /\ concurrent \/ pc = "idle"
    /\ running' = FALSE /\ initialized' = FALSE
    /\ release_all
    /\ Done("stop")
    /\ UNCHANGED <<params, derivedVars, acquired, n_start, threshold,
                   recent_energies, bufVars, prompt_tokens, paused, n_iter, emitted,
                   t_last, t_decoded, now, pc, lv, cpc, ret, sub, pause_seq, ub,
                   concurrent, n_detect, energy, aloneVars>>

\* ~StreamState, when the program exits
StreamState_dtor ==
    /\ ~ub
    /\ pc = "idle" /\ cpc = "idle"
    /\ release_all
    /\ pcmf32' = <<>> /\ pcmf32_old' = <<>> /\ pcmf32_new' = <<>>
    /\ prompt_tokens' = <<>>
    /\ pc' = "gone"
    /\ UNCHANGED <<initialized, running, paused, n_start>>
    /\ LifeFrame

pause ==
    \/ P557_set_paused \/ P560_audio_pause \/ P561_audio_clear
    \/ P564_clear_pcmf32 \/ P565_clear_old \/ P566_clear_new

resume ==
    \/ R574_audio_clear \/ R575_audio_resume \/ R578_clear_pcmf32
    \/ R579_clear_old \/ R580_clear_new \/ R582_clear_paused

listen_for ==
    \/ listen_call \/ L356_initialized \/ L361_paused \/ L365_poll
    \/ L366_quit \/ L373_poll \/ L374_quit \/ L378_paused \/ L382_get \/ L384_backlog \/ L398_take
    \/ L404_resize \/ L406_copy_tail \/ L411_copy_new \/ L413_store_old
    \/ L415_gate \/ L424_get \/ L427_vad \/ L437_speech
    \/ L181_attempt \/ L182_whisper_full \/ L471_failed \/ L491_segments
    \/ L530_keep_tail

Next ==
    \/ STTStream_ctor \/ STTStream_dtor
    \/ Capture \/ pause \/ resume \/ listen_for

\* pause() as the only caller beside listen_for
NextPause ==
    \/ STTStream_ctor \/ STTStream_dtor
    \/ Capture \/ pause \/ listen_for

\* the free-function API on its static StreamState
NextLife ==
    \/ start_stream \/ stop_stream \/ StreamState_dtor
    \/ Capture \/ pause \/ resume \/ listen_for

Spec == Init /\ [][Next]_vars
SpecConc == InitConc /\ [][Next]_vars
SpecPause == InitConc /\ [][NextPause]_vars
SpecLife == InitLife /\ [][NextLife]_vars
SpecParams == InitParams /\ [][Next]_vars

\* stop_stream called by a second thread while listen_for runs
InitStop == ImplState(TRUE, ConcConfigs, "idle") /\ AloneInit
NextStop == start_stream \/ stop_stream \/ Capture \/ listen_for
SpecStop == InitStop /\ [][NextStop]_vars

\* ---- the polling loop of lines 372-396 in real time: the capture thread
\* delivers while the listening thread sleeps (lines 386 and 395)
PollLoop == {"L373", "L374", "L378", "L382", "L384", "L386", "L395"}

PollConfigs ==
    {c \in Configs : /\ c.lang_known /\ c.no_context /\ c.step_ms > 0
                     /\ c.max_retry_attempts = 1 /\ c.length_ms = MaxLen
                     /\ c.keep_ms = 0}

InitPoll == ImplInit(TRUE, PollConfigs) /\ AloneInit

\* lines 384-396 up to the sleeps
L384_tests ==
    /\ ~ub
    /\ pc = "L384"
    /\ IF backlogged(Len(pcmf32_new))
       THEN m_audio' = <<>> /\ Goto("L386")
       ELSE IF chunk_ready(Len(pcmf32_new))
       THEN m_audio' = <<>> /\ Goto("L398")
       ELSE UNCHANGED m_audio /\ Goto("L395")
    /\ UNCHANGED <<threshold, recent_energies, bufVars, prompt_tokens, running,
                   n_iter, emitted, t_last, t_decoded, now, ub>>
    /\ LsnFrame

\* sleep_for of line 386 (100 ms) or 395 (20 ms); the capture callback runs
\* n times meanwhile
sleep_for(n) ==
    /\ ~ub
    /\ pc \in {"L386", "L395"}
    /\ n > 0 => audio /\ m_running
    /\ m_audio' = IF n = 0 THEN m_audio
                  ELSE LET q == Append(m_audio, Epoch + 1)
                       IN  IF Len(q) > audio_capacity THEN Tail(q) ELSE q
    /\ Goto("L373")
    /\ UNCHANGED <<threshold, recent_energies, bufVars, prompt_tokens, running,
                   n_iter, emitted, t_last, t_decoded, now, ub>>
    /\ LsnFrame

sleep_silent == sleep_for(0)
sleep_delivering == sleep_for(1)

\* the capture thread between two calls of listen_for
capture_outside == pc = "idle" /\ Capture

\* calls of listen_for until one has decoded a window
listen_first == n_iter = 0 /\ listen_call

listen_timed ==
    \/ listen_first \/ L356_initialized \/ L361_paused \/ L365_poll
    \/ L366_quit \/ L373_poll \/ L374_quit \/ L378_paused \/ L382_get
    \/ L384_tests \/ sleep_silent \/ sleep_delivering \/ L398_take
    \/ L404_resize \/ L406_copy_tail \/ L411_copy_new \/ L413_store_old
    \/ L181_attempt \/ L182_whisper_full \/ L471_failed \/ L491_segments
    \/ L530_keep_tail

\* resume() called on a paused stream only, as the command loop calls it
resume_paused == (cpc # "idle" \/ paused) /\ resume

NextPoll ==
    STTStream_ctor \/ capture_outside \/ pause \/ resume_paused \/ listen_timed

\* the listening thread is scheduled, and the capture device delivers again
\* and again while it runs
SpecPoll ==
    /\ InitPoll /\ [][NextPoll]_vars
    /\ WF_vars(listen_timed) /\ SF_vars(sleep_delivering)

\* ---- AdaptiveVAD on its own: detect() called with any energies
InitThresholds == {MIN_THRESHOLD - 1000, INITIAL_THOLD, MAX_THRESHOLD + 1000}
Prefills == {0, MIN_HISTORY - 2, HIST_SIZE - 2}
LoudEnergies == Energies \ {0}

\* the history after n recorded energies: e1 first, e ever after
History(e1, e, n) == [i \in 1..n |-> IF i = 1 THEN e1 ELSE e]

\* the threshold after calls m+1..n of detect() that recorded History(e1, e, n),
\* from threshold thr after the first m of them
RECURSIVE ThresholdAfter(_, _, _, _, _)
ThresholdAfter(thr, m, n, e1, e) ==
    IF n = m THEN thr
    ELSE IF n = m + 1
         THEN detect_threshold(thr, History(e1, e, m), History(e1, e, n)[n])
    ELSE LET mid == (m + n) \div 2
         IN  CHOOSE r \in {ThresholdAfter(half, mid, n, e1, e) :
                              half \in {ThresholdAfter(thr, m, mid, e1, e)}} : TRUE

StreamAbsent ==
    /\ params = CHOOSE c \in Configs : ~c.lang_known
    /\ audio = FALSE /\ m_running = FALSE /\ m_audio = <<>>
    /\ ctx = FALSE
    /\ pcmf32 = <<>> /\ pcmf32_old = <<>> /\ pcmf32_new = <<>>
    /\ prompt_tokens = <<>>
    /\ initialized = FALSE /\ paused = FALSE /\ running = FALSE
    /\ n_samples_step = 0 /\ n_samples_len = 0 /\ n_samples_keep = 0
    /\ use_vad = FALSE /\ n_new_line = 0
    /\ n_iter = 0 /\ emitted = <<>> /\ t_last = 0 /\ t_decoded = -1 /\ now = 0
    /\ pc = "none" /\ lv = LvInit /\ cpc = "none" /\ ret = "none"
    /\ sub = SubInit /\ pause_seq = 0 /\ ub = FALSE
    /\ concurrent = FALSE
    /\ ops = <<"none", "none">>
    /\ acquired = NoResources /\ released = NoResources /\ n_start = 0

InitVADFrom(thresholds) ==
    /\ StreamAbsent
    /\ vad = TRUE
    /\ \E thr0 \in thresholds, n \in Prefills, e1 \in LoudEnergies, e \in LoudEnergies :
         /\ threshold = ThresholdAfter(thr0, 0, n, e1, e)
         /\ recent_energies = History(e1, e, n)
    /\ n_detect = 0 /\ energy = -1
    /\ PruneIdle
    /\ TriggerIdle /\ TwinIdle
    /\ PlayerAbsent
    /\ RetryIdle

InitVAD == InitVADFrom(InitThresholds)

\* AdaptiveVAD built with the default initial_thold of line 78
InitDefault == InitVADFrom({INITIAL_THOLD})

detect ==
    /\ n_detect < MaxDetect
    /\ \E e \in Energies :
         /\ recent_energies' = record_energy(recent_energies, e)
         /\ threshold' = detect_threshold(threshold, recent_energies, e)
         /\ energy' = e
    /\ n_detect' = n_detect + 1
    /\ UNCHANGED <<streamVars, vad, aloneVars>>

NextVAD == detect
SpecVAD == InitVAD /\ [][NextVAD]_vars
SpecDefault == InitDefault /\ [][NextVAD]_vars

\* ---- prune_context_tokens on its own
TokenSeqs == UNION {[1..n -> 1..MaxTokens] : n \in 0..MaxTokens}

InitPrune ==
    /\ StreamAbsent
    /\ vad = FALSE /\ threshold = INITIAL_THOLD /\ recent_energies = <<>>
    /\ n_detect = 0 /\ energy = -1
    /\ tokens \in TokenSeqs
    /\ max_tokens \in 0..MaxTokens
    /\ before = tokens
    /\ n_prune = 0
    /\ TriggerIdle /\ TwinIdle
    /\ PlayerAbsent
    /\ RetryIdle

prune_call ==
    /\ n_prune < 2
    /\ before' = tokens
    /\ tokens' = prune_context_tokens(tokens, max_tokens)
    /\ n_prune' = n_prune + 1
    /\ UNCHANGED <<streamVars, vadVars, n_detect, energy, max_tokens, triggerVars, twinVars, playerVars,
                   retryVars>>

NextPrune == prune_call
SpecPrune == InitPrune /\ [][NextPrune]_vars

\* ---- process_audio_with_retry on its own: any results of the engine
ResultCodes == {0, 1, 2}

InitRetry ==
    /\ StreamAbsent
    /\ vad = FALSE /\ threshold = INITIAL_THOLD /\ recent_energies = <<>>
    /\ n_detect = 0 /\ energy = -1
    /\ PruneIdle
    /\ TriggerIdle /\ TwinIdle
    /\ PlayerAbsent
    /\ \E max \in 0..MaxAttempts : rt = RetryState(max)

RetryFrame ==
    UNCHANGED <<streamVars, vadVars, n_detect, energy, pruneVars, triggerVars, twinVars,
                playerVars>>

\* the loop test of line 181, and the return of line 194
retry_test ==
    /\ rt.at = "L181"
    /\ rt' = IF retry_continues(rt.attempt, rt.max_attempts)
             THEN [rt EXCEPT !.at = "L182"]
             ELSE [rt EXCEPT !.at = "done", !.returned = FALSE]
    /\ RetryFrame

\* lines 182-186: the call of whisper_full and the return on success
retry_call ==
    /\ rt.at = "L182"
    /\ \E result \in ResultCodes :
         rt' = IF result = 0
               THEN [rt EXCEPT !.results = Append(@, result), !.at = "done",
                               !.returned = TRUE]
               ELSE [rt EXCEPT !.results = Append(@, result), !.at = "L188"]
    /\ RetryFrame

backoff_ms_flat(attempt) == BACKOFF_MS

\* the duration of lines 189-190
backoff_ms(attempt) == BACKOFF_MS * (attempt + 1)

\* lines 188-191 and the ++attempt of line 181
retry_backoff ==
    /\ rt.at = "L188"
    /\ rt' = [rt EXCEPT
                !.sleeps = IF rt.attempt < rt.max_attempts - 1
                           THEN Append(@, backoff_ms(rt.attempt))
                           ELSE @,
                !.attempt = @ + 1,
                !.at = "L181"]
    /\ RetryFrame

NextRetry == retry_test \/ retry_call \/ retry_backoff
SpecRetry == InitRetry /\ [][NextRetry]_vars

\* ---- the segment loop and contains_trigger on their own
Chars == {"a", "A", "x"}
Strings(n) == UNION {[1..k -> Chars] : k \in 0..n}
TriggerSegLists ==
    UNION {[1..k -> {Seg(t, <<>>) : t \in Strings(MaxText)}] : k \in 0..MaxSegs}

InitTrigger ==
    /\ StreamAbsent
    /\ vad = FALSE /\ threshold = INITIAL_THOLD /\ recent_energies = <<>>
    /\ n_detect = 0 /\ energy = -1
    /\ PruneIdle
    /\ trig_segs \in TriggerSegLists
    /\ trig_word \in Strings(MaxWord)
    /\ trig_match = FALSE
    /\ n_trig = 0
    /\ PlayerAbsent
    /\ RetryIdle /\ TwinIdle

segment_loop_call ==
    /\ n_trig = 0
    /\ trig_match' = segment_loop(trig_segs, trig_word)
    /\ n_trig' = 1
    /\ UNCHANGED <<streamVars, vadVars, n_detect, energy, pruneVars, trig_segs, trig_word,
                   playerVars, retryVars, twinVars>>

NextTrigger == segment_loop_call
SpecTrigger == InitTrigger /\ [][NextTrigger]_vars

\* ---- startup of the standalone program (main of whisper_stream.cpp)
MainFrame ==
    UNCHANGED <<m_audio, pcmf32_old, prompt_tokens, flagVars, n_iter, emitted, t_last, t_decoded,
                now, lv, cpc, sub, pause_seq, ub, concurrent, ops, n_start,
                recent_energies, n_detect, energy, aloneVars>>

Exit(code) == pc' = "exit" /\ ret' = code

\* lines 261-281: parse the arguments, normalise and derive the sample counts
M261_params ==
    /\ pc = "main"
    /\ \E parsed \in BOOLEAN :
         IF ~parsed
         THEN /\ Exit("1")
              /\ UNCHANGED <<params, derivedVars>>
         ELSE LET keep == normalised_keep(params.keep_ms, params.step_ms)
                  len == normalised_len(params.length_ms, params.step_ms)
                  vadmode == n_samples(params.step_ms) <= 0
              IN  /\ n_samples_step' = n_samples(params.step_ms)
                  /\ n_samples_len' = n_samples(len)
                  /\ n_samples_keep' = n_samples(keep)
                  /\ use_vad' = vadmode
                  /\ n_new_line' = IF ~vadmode
                                   THEN Max(1, (len \div params.step_ms) - 1)
                                   ELSE 1
                  /\ params' = [params EXCEPT !.keep_ms = keep, !.length_ms = len,
                                              !.no_context = @ \/ vadmode]
                  /\ pc' = "M283" /\ UNCHANGED ret
    /\ UNCHANGED <<audio, m_running, ctx, acquired, released, pcmf32, pcmf32_new,
                   vad, threshold>>
    /\ MainFrame

\* lines 283-289: open the capture device and start capturing
M283_audio_init ==
    /\ pc = "M283"
    /\ acquired' = [acquired EXCEPT !.audio = @ + 1]
    /\ \E audio_ok \in BOOLEAN :
         IF audio_ok
         THEN /\ audio' = TRUE /\ m_running' = TRUE
              /\ pc' = "M291" /\ UNCHANGED <<ret, released>>
         ELSE /\ released' = [released EXCEPT !.audio = @ + 1]
              /\ Exit("1")
              /\ UNCHANGED <<audio, m_running>>
    /\ UNCHANGED <<params, derivedVars, ctx, pcmf32, pcmf32_new, vad, threshold>>
    /\ MainFrame

\* lines 291-295: the language check; exit() runs no destructor of main's locals
M291_language ==
    /\ pc = "M291"
    /\ IF ~params.lang_known
       THEN Exit("unknown language")
       ELSE pc' = "M300" /\ UNCHANGED ret
    /\ UNCHANGED <<params, derivedVars, audio, m_running, ctx, acquired, released,
                   pcmf32, pcmf32_new, vad, threshold>>
    /\ MainFrame

\* lines 300-311: load the inference context and size the buffers
M300_context ==
    /\ pc = "M300"
    /\ \E model_ok \in BOOLEAN :
         IF model_ok
         THEN /\ ctx' = TRUE
              /\ acquired' = [acquired EXCEPT !.ctx = @ + 1, !.vad = @ + 1]
              /\ pcmf32' = Zeros(n_samples_30s)
              /\ pcmf32_new' = Zeros(n_samples_30s)
              /\ vad' = TRUE /\ threshold' = params.vad_thold
              /\ pc' = "main_loop"
              /\ UNCHANGED <<ret, audio, m_running, released>>
         ELSE /\ audio' = FALSE /\ m_running' = FALSE
              /\ released' = [released EXCEPT !.audio = @ + 1]
              /\ Exit("2")
              /\ UNCHANGED <<ctx, acquired, pcmf32, pcmf32_new, vad, threshold>>
    /\ UNCHANGED <<params, derivedVars>>
    /\ MainFrame

InitMain == ImplState(FALSE, Configs, "main") /\ AloneInit

NextMain ==
    \/ M261_params \/ M283_audio_init \/ M291_language \/ M300_context
    \/ Capture

SpecMain == InitMain /\ [][NextMain]_vars


\* ---- the command loop of the demo: listen_for, then pause, play, resume
PlayerFrame ==
    UNCHANGED <<params, derivedVars, lifeVars, deviceVars, ctx, bufVars,
                prompt_tokens, flagVars, n_iter, emitted, t_last, t_decoded, now, pc, lv, cpc, ret,
                sub, pause_seq, ub, concurrent, vadVars, n_detect, energy, pruneVars,
                triggerVars, twinVars, retryVars, synth>>

\* the samples piper synthesizes for a response
Responses == {[i \in 1..n |-> 1] : n \in 0..MaxSamples}

appended_never(buf, data, playing) == data

\* lines 51-56: m_buffer after play(data)
appended(buf, data, playing) == IF ~playing THEN data ELSE buf \o data

\* sdl_player::play on a non-empty vector and an open device, lines 49-58
sdl_play(audio_data) ==
    /\ m_buffer' = appended(m_buffer, audio_data, m_is_playing)
    /\ m_buffer_pos' = IF ~m_is_playing THEN 0 ELSE m_buffer_pos
    /\ m_is_playing' = TRUE
    /\ queued' = queued \o audio_data
    /\ UNCHANGED handed

\* TTSEngine::play up to the call of wait_to_finish, sdl_player::play included
TTSEngine_play ==
    /\ pc = "idle" /\ cpc = "idle" /\ tpc = "idle"
    /\ ops[2] = "pause"
    /\ \E all_samples \in Responses :
         IF ~synth \/ all_samples = <<>>
         THEN /\ Done("play")
              /\ UNCHANGED <<m_buffer, m_buffer_pos, m_is_playing, queued, handed, tpc>>
         ELSE /\ sdl_play(all_samples)
              /\ tpc' = "L86"
              /\ UNCHANGED ops
    /\ PlayerFrame

finished_always(playing) == TRUE

\* the predicate wait_to_finish waits for
finished(playing) == ~playing

\* m_cond.wait(lock, pred) with the mutex held: return when the predicate
\* holds, release the mutex and block otherwise
cond_wait ==
    /\ IF finished(m_is_playing)
       THEN tpc' = "idle" /\ Done("play")
       ELSE tpc' = "wait" /\ UNCHANGED ops
    /\ UNCHANGED <<m_buffer, m_buffer_pos, m_is_playing, queued, handed>>
    /\ PlayerFrame

\* lines 66-69: wait_to_finish locks and tests the predicate a first time
W66_lock == tpc = "L86" /\ cond_wait

\* line 69: the blocked thread wakes without a notification
W69_spurious ==
    /\ tpc = "wait"
    /\ tpc' = "woken"
    /\ UNCHANGED <<m_buffer, m_buffer_pos, m_is_playing, queued, handed, ops>>
    /\ PlayerFrame

\* line 69: the woken thread locks the mutex again and tests the predicate
W69_wake == tpc = "woken" /\ cond_wait

\* sdl_player::wait_to_finish; TTSEngine::play returns with it
wait_to_finish == W66_lock \/ W69_spurious \/ W69_wake

notify_lost(t) == t

\* m_cond.notify_one() of line 103: wakes the thread blocked in wait, if any
notify_one(t) == IF t = "wait" THEN "woken" ELSE t

\* sdl_player::audio_callback, run by the audio-output thread
audio_callback ==
    /\ synth
    /\ LET to_copy == IF m_buffer_pos < Len(m_buffer)
                      THEN Min(CALLBACK_LEN, Len(m_buffer) - m_buffer_pos)
                      ELSE 0
           pos == m_buffer_pos + to_copy
       IN  /\ handed' = handed \o SubSeq(m_buffer, m_buffer_pos + 1, pos)
           /\ IF pos >= Len(m_buffer)
              THEN /\ m_buffer' = <<>> /\ m_buffer_pos' = 0 /\ m_is_playing' = FALSE
                   /\ tpc' = IF m_is_playing THEN notify_one(tpc) ELSE tpc
              ELSE m_buffer_pos' = pos /\ UNCHANGED <<m_buffer, m_is_playing, tpc>>
    /\ UNCHANGED <<queued, ops>>
    /\ PlayerFrame

\* what the command loop calls next
listen_next ==
    \/ ops[2] \in {"none", "resume"}
    \/ ops[2] = "listen" /\ ret = "false"
pause_next == ops[2] = "listen" /\ ret = "true"
resume_next == ops[2] = "play"

loop_listen == (pc # "idle" \/ listen_next) /\ tpc = "idle" /\ listen_for
loop_pause == (cpc # "idle" \/ pause_next) /\ pause
loop_resume == (cpc # "idle" \/ resume_next) /\ resume
\* the "Exit." branch: break after play, then the objects are destroyed
loop_exit == resume_next /\ STTStream_dtor

InitLoop ==
    /\ ImplInit(FALSE, Configs)
    /\ n_detect = 0 /\ energy = -1
    /\ PruneIdle
    /\ TriggerIdle /\ TwinIdle
    /\ synth \in BOOLEAN
    /\ PlayerIdle
    /\ RetryIdle

NextLoop ==
    \/ STTStream_ctor \/ Capture \/ audio_callback
    \/ loop_listen \/ loop_pause \/ TTSEngine_play \/ wait_to_finish
    \/ loop_resume \/ loop_exit

SpecLoop == InitLoop /\ [][NextLoop]_vars

\* ---- sdl_player on its own: a caller thread and the audio-output thread
PlayData == UNION {[1..n -> 1..2] : n \in 0..MaxSamples}

InitPlayer ==
    /\ StreamAbsent
    /\ vad = FALSE /\ threshold = INITIAL_THOLD /\ recent_energies = <<>>
    /\ n_detect = 0 /\ energy = -1
    /\ PruneIdle
    /\ TriggerIdle /\ TwinIdle
    /\ synth \in BOOLEAN
    /\ PlayerIdle
    /\ RetryIdle

\* sdl_player::play called by the caller thread, lines 44-59
player_play ==
    /\ tpc = "idle"
    /\ \E audio_data \in PlayData :
         /\ Len(queued) + Len(audio_data) <= MaxQueued
         /\ IF audio_data = <<>> \/ ~synth
            THEN UNCHANGED <<m_buffer, m_buffer_pos, m_is_playing, queued, handed>>
            ELSE sdl_play(audio_data)
    /\ UNCHANGED <<tpc, ops>>
    /\ PlayerFrame

\* the caller thread calls wait_to_finish
player_wait ==
    /\ tpc = "idle"
    /\ tpc' = "L86"
    /\ UNCHANGED <<m_buffer, m_buffer_pos, m_is_playing, queued, handed, ops>>
    /\ PlayerFrame

NextPlayer == player_play \/ player_wait \/ wait_to_finish \/ audio_callback

SpecPlayer == InitPlayer /\ [][NextPlayer]_vars

\* the device keeps calling back and the waiting thread is scheduled
SpecPlayerFair ==
    /\ SpecPlayer
    /\ WF_vars(audio_callback) /\ WF_vars(W66_lock \/ W69_wake)


\* ---- the class API (stt_lib.cpp) and the free-function API
\* ---- (whisper_stream.cpp) side by side, on the same inputs
APIs == {"class", "free"}

n_iter_initial_free(api) == IF api = "free" THEN 1 ELSE 0

\* int n_iter = 0 of Impl; static int n_iter = 0 of the free listen_for
n_iter_initial(api) == 0

\* the sleep that ends a pass of the polling loop without a chunk
poll_sleep_ms(api) == IF api = "class" THEN POLL_SLEEP_CLASS ELSE POLL_SLEEP_FREE

\* fixed-step with context, and VAD mode with either detector; already normalised
TwinConfigs ==
    {c \in Configs : /\ c.lang_known /\ c.max_retry_attempts = MaxRetry
                     /\ c.length_ms = MaxLen /\ c.step_ms <= 1
                     /\ c.keep_ms = c.step_ms
                     /\ c.step_ms > 0 => ~c.no_context}

\* Impl / StreamState after a successful initialization
ApiState(api) ==
    [pcmf32 |-> Zeros(n_samples_30s), pcmf32_old |-> <<>>,
     pcmf32_new |-> Zeros(n_samples_30s), prompt_tokens |-> <<>>,
     paused |-> FALSE, running |-> TRUE, m_running |-> TRUE,
     threshold |-> params.vad_thold, recent_energies |-> <<>>,
     n_iter |-> n_iter_initial(api), t_last |-> 0,
     sub |-> <<>>, ret |-> "none", polled |-> 0, slept |-> 0]

\* a call begins: nothing submitted, nothing polled, nothing slept yet
ApiCall(st) == [st EXCEPT !.sub = <<>>, !.ret = "none", !.polled = 0, !.slept = 0]

\* the polling loop, lines 372-396 of stt_lib.cpp and their copies; polls is
\* what sdl_poll_events and audio->get give, pass by pass
RECURSIVE api_poll(_, _, _)
api_poll(api, st, polls) ==
    IF polls = <<>> THEN [st |-> st, out |-> "starved"]
    ELSE LET p == Head(polls)
             seen == [st EXCEPT !.polled = @ + 1]
             got == [seen EXCEPT !.pcmf32_new = p.drain]
         IN  IF quit_seen(p.quit)
             THEN [st |-> [seen EXCEPT !.running = FALSE], out |-> "return"]
             ELSE IF st.paused
             THEN [st |-> seen, out |-> "return"]
             ELSE IF backlogged(Len(p.drain))
             THEN api_poll(api, [got EXCEPT !.slept = @ + BACKLOG_SLEEP_MS],
                           Tail(polls))
             ELSE IF chunk_ready(Len(p.drain))
             THEN [st |-> got, out |-> "ready"]
             ELSE api_poll(api, [got EXCEPT !.slept = @ + poll_sleep_ms(api)],
                           Tail(polls))

\* lines 398-413: the window of the fixed-step mode
api_window(st) ==
    LET n_new == Len(st.pcmf32_new)
        take == n_samples_take(Len(st.pcmf32_old), n_new)
        win == Suffix(st.pcmf32_old, take) \o st.pcmf32_new
    IN  [st EXCEPT !.pcmf32 = win, !.pcmf32_old = win]

\* lines 186-189: the back-off after the failed attempts among results
RECURSIVE retry_slept(_, _)
retry_slept(results, max) ==
    IF results = <<>> THEN 0
    ELSE LET k == Len(results)
             rest == retry_slept(SubSeq(results, 1, k - 1), max)
         IN  IF results[k] # 0 /\ k - 1 < max - 1
             THEN rest + BACKOFF_MS * k ELSE rest

\* lines 445-551: inference with retries, the segment loop, the counter, the tail
api_decode(api, st, in) ==
    LET max == params.max_retry_attempts
        results == SubSeq(in.results, 1, Min(Len(in.results), max))
        tried == [st EXCEPT !.sub = [i \in 1..Len(results) |-> st.pcmf32],
                            !.slept = @ + retry_slept(results, max)]
        ok == results # <<>> /\ results[Len(results)] = 0
        n == st.n_iter + 1
    IN  IF ~ok THEN [tried EXCEPT !.ret = "false"]
        ELSE IF segment_loop(in.segs, in.trigger)
        THEN [tried EXCEPT !.n_iter = n, !.ret = "true"]
        ELSE IF ~use_vad /\ n % n_new_line = 0
        THEN [tried EXCEPT
                 !.n_iter = n,
                 !.pcmf32_old = Suffix(st.pcmf32, n_samples_keep),
                 !.prompt_tokens =
                     IF ~params.no_context
                     THEN prune_context_tokens(segment_tokens(in.segs),
                                               params.max_context_tokens)
                     ELSE @,
                 !.ret = "false"]
        ELSE [tried EXCEPT !.n_iter = n, !.ret = "false"]

\* lines 415-443: the gate of VAD mode; t_now is the clock's reading
api_vad(api, st, in, t_now) ==
    IF t_now - st.t_last < VAD_GATE THEN [st EXCEPT !.ret = "false"]
    ELSE LET got == [st EXCEPT !.pcmf32_new = in.vdrain]
             heard ==
                 IF params.adaptive_vad
                 THEN [got EXCEPT
                          !.recent_energies = record_energy(@, in.energy),
                          !.threshold = detect_threshold(@, st.recent_energies,
                                                         in.energy)]
                 ELSE got
         IN  IF gate_open(in.is_speech)
             THEN api_decode(api, [heard EXCEPT !.pcmf32 = in.wdrain,
                                                !.t_last = t_now], in)
             ELSE [heard EXCEPT !.ret = "false"]

\* STTStream::listen_for and the free listen_for, from call to return
api_listen_for(api, st0, in, t_now) ==
    LET st == ApiCall(st0)
    IN  IF st.paused THEN [st EXCEPT !.ret = "false"]
        ELSE IF quit_seen(in.quit0)
        THEN [st EXCEPT !.running = FALSE, !.ret = "false"]
        ELSE IF use_vad THEN api_vad(api, st, in, t_now)
        ELSE LET polled == api_poll(api, st, in.polls)
             IN  IF polled.out = "ready"
                 THEN api_decode(api, api_window(polled.st), in)
                 ELSE [polled.st EXCEPT !.ret = "false"]

\* STTStream::pause and pause_stream
api_pause(api, st) ==
    [ApiCall(st) EXCEPT !.paused = TRUE, !.m_running = FALSE,
                        !.pcmf32 = cleared(@), !.pcmf32_old = cleared(@),
                        !.pcmf32_new = cleared(@)]

\* STTStream::resume and resume_stream
api_resume(api, st) ==
    [ApiCall(st) EXCEPT !.m_running = TRUE,
                        !.pcmf32 = cleared(@), !.pcmf32_old = cleared(@),
                        !.pcmf32_new = cleared(@), !.paused = FALSE]

\* ---- inputs of a call, the same for both APIs
Drains == {<<>>, <<1>>, <<2>>, <<1, 1>>, <<1, 1, 1>>}
Poll(quit, drain) == [quit |-> quit, drain |-> drain]
Polls == {Poll(TRUE, <<>>)} \union {Poll(FALSE, d) : d \in Drains}

\* this pass of the polling loop is the last one
leaves(p) ==
    p.quit \/ (~backlogged(Len(p.drain)) /\ chunk_ready(Len(p.drain)))

\* the passes of one call: only the last one leaves the loop
PollRuns ==
    {ps \in UNION {[1..n -> Polls] : n \in 1..MaxPolls} :
        \A i \in 1..Len(ps) : leaves(ps[i]) <=> i = Len(ps)}

\* the result codes of one call: the first success ends them
ResultRuns ==
    {rs \in UNION {[1..n -> {0, 1}] : n \in 1..params.max_retry_attempts} :
        /\ \A i \in 1..(Len(rs) - 1) : rs[i] # 0
        /\ rs[Len(rs)] # 0 => Len(rs) = params.max_retry_attempts}

Decodes ==
    {d \in ResultRuns \X SegLists : d[1][Len(d[1])] # 0 => d[2] = <<>>}

ListenInput(quit0, polls, dt, vdrain, e, speech, wdrain, d) ==
    [quit0 |-> quit0, polls |-> polls, dt |-> dt, vdrain |-> vdrain,
     energy |-> e, is_speech |-> speech, wdrain |-> wdrain,
     results |-> d[1], segs |-> d[2], trigger |-> <<"a", "B">>]

ListenInputs ==
    IF use_vad
    THEN {ListenInput(FALSE, <<>>, dt, vd, e, sp, wd, d) :
              dt \in {0, VAD_GATE}, vd \in {<<>>, <<1, 1>>}, e \in StreamEnergies,
              sp \in BOOLEAN, wd \in {<<1>>, <<1, 1, 1>>}, d \in Decodes}
         \union {ListenInput(TRUE, <<>>, 0, <<>>, 0, FALSE, <<>>, <<<<1>>, <<>>>>)}
    ELSE {ListenInput(FALSE, ps, 0, <<>>, 0, FALSE, <<>>, d) :
              ps \in PollRuns, d \in Decodes}
         \union {ListenInput(TRUE, <<>>, 0, <<>>, 0, FALSE, <<>>, <<<<1>>, <<>>>>)}

\* both streams exist, built from the same parameters
InitTwin ==
    /\ params \in TwinConfigs
    /\ n_samples_step = n_samples(params.step_ms)
    /\ n_samples_len = n_samples(params.length_ms)
    /\ n_samples_keep = n_samples(params.keep_ms)
    /\ use_vad = (n_samples(params.step_ms) <= 0)
    /\ n_new_line = IF n_samples(params.step_ms) > 0
                    THEN Max(1, (params.length_ms \div params.step_ms) - 1)
                    ELSE 1
    /\ audio = TRUE /\ m_running = TRUE /\ m_audio = <<>>
    /\ ctx = TRUE
    /\ vad = TRUE /\ threshold = params.vad_thold /\ recent_energies = <<>>
    /\ pcmf32 = Zeros(n_samples_30s) /\ pcmf32_old = <<>>
    /\ pcmf32_new = Zeros(n_samples_30s)
    /\ prompt_tokens = <<>>
    /\ initialized = TRUE /\ paused = FALSE /\ running = TRUE
    /\ n_iter = 0 /\ emitted = <<>> /\ t_last = 0 /\ t_decoded = -1 /\ now = 0
    /\ pc = "idle" /\ lv = LvInit /\ cpc = "idle" /\ ret = "none"
    /\ sub = SubInit /\ pause_seq = 0 /\ ub = FALSE
    /\ concurrent = FALSE
    /\ ops = <<"none", "none">>
    /\ acquired = [audio |-> 1, ctx |-> 1, vad |-> 1]
    /\ released = NoResources /\ n_start = 0
    /\ n_detect = 0 /\ energy = -1
    /\ PruneIdle /\ TriggerIdle /\ PlayerAbsent /\ RetryIdle
    /\ twin = [calls |-> 0, op |-> "none", now |-> 0,
               api |-> [a \in APIs |-> ApiState(a)]]

TwinFrame ==
    UNCHANGED <<streamVars, vadVars, n_detect, energy, pruneVars, triggerVars,
                playerVars, retryVars>>

\* the same listen call on both APIs, with the same inputs
twin_listen ==
    /\ twin.calls < TwinMaxCalls
    /\ \E in \in ListenInputs :
         /\ twin.now + in.dt <= MaxTime
         /\ twin' = [calls |-> twin.calls + 1, op |-> "listen",
                     now |-> twin.now + in.dt,
                     api |-> [a \in APIs |->
                                api_listen_for(a, twin.api[a], in,
                                               twin.now + in.dt)]]
    /\ TwinFrame

\* the same pause call on both APIs
twin_pause ==
    /\ twin.calls < TwinMaxCalls
    /\ twin' = [twin EXCEPT !.calls = @ + 1, !.op = "pause",
                            !.api = [a \in APIs |-> api_pause(a, twin.api[a])]]
    /\ TwinFrame

\* the same resume call on both APIs
twin_resume ==
    /\ twin.calls < TwinMaxCalls
    /\ twin' = [twin EXCEPT !.calls = @ + 1, !.op = "resume",
                            !.api = [a \in APIs |-> api_resume(a, twin.api[a])]]
    /\ TwinFrame

NextTwin == twin_listen \/ twin_pause \/ twin_resume
SpecTwin == InitTwin /\ [][NextTwin]_vars

\* ---- properties

\* C1: a window drained before pause() set the paused flag is never handed to
\* the engine after the flag was set: at every engine call, the number of
\* pause() calls begun is the number begun when the window was drained.
C1_NoStaleSubmit == sub.valid => sub.built_seq = sub.call_seq

\* C2: pause() never clears a buffer between listen()'s computation of a size
\* or offset from it and listen()'s use of it: no listen() step indexes a
\* buffer beyond its current length.
C2_BuffersSynchronized == ~ub

Purged == cpc = "idle" /\ pc = "idle" /\ ops = <<"pause", "resume">>

\* C3: once pause() and then resume() have returned with no listen() between
\* them, previous_tail (pcmf32_old) and incoming_chunk (pcmf32_new) are empty
\* and the paused flag is false.
C3_PausePurges == Purged => pcmf32_old = <<>> /\ pcmf32_new = <<>> /\ ~paused

C3_Witness == Purged /\ initialized /\ n_iter >= 1 /\ n_samples_keep >= 1

\* C4: every window handed to the engine holds only samples captured after
\* the last completed pause(): a sample captured before the k-th pause()
\* returned carries a number <= k, and a window submitted after k completed
\* pauses holds only numbers > k.
C4_NoStaleSamples ==
    sub.valid => \A i \in 1..Len(sub.win) : sub.win[i] > sub.done_seq

C4_Witness ==
    /\ sub.valid /\ sub.done_seq >= 1 /\ Len(sub.win) >= 2
    /\ \A i \in 1..Len(sub.win) : sub.win[i] = sub.done_seq + 1

Calls == Len(lv.results) + (IF pc = "L182" THEN 1 ELSE 0)

\* C5: the engine is called at most max_retry_attempts times for one window;
\* the invoker reports failure only after max_retry_attempts calls that all
\* returned non-zero; it reports success after exactly k calls, where call k
\* is the first to return zero.
C5_RetryBound ==
    /\ pc \in {"L181", "L182", "L471", "L491"}
         => Calls <= params.max_retry_attempts
    /\ pc = "L471"
         => /\ Len(lv.results) = params.max_retry_attempts
            /\ \A i \in 1..Len(lv.results) : lv.results[i] # 0
    /\ pc = "L491"
         => /\ Len(lv.results) >= 1
            /\ lv.results[Len(lv.results)] = 0
            /\ \A i \in 1..(Len(lv.results) - 1) : lv.results[i] # 0

C5_Witness == pc = "L491" /\ Len(lv.results) = MaxRetry /\ lv.results[1] # 0

\* C6: in fixed-step mode the window built by listen() has
\* |incoming_chunk| + min(|previous_tail|, keep + length - |incoming_chunk|)
\* samples.
C6_WindowLength ==
    pc = "L413" =>
        Len(pcmf32) = Len(pcmf32_new)
                      + Min(Len(pcmf32_old),
                            n_samples_keep + n_samples_len - Len(pcmf32_new))

C6_Witness ==
    /\ pc = "L413" /\ n_samples_keep >= 1
    /\ Len(pcmf32_old) > n_samples_keep + n_samples_len - Len(pcmf32_new)
    /\ Len(pcmf32) > Len(pcmf32_new)

\* C7: in fixed-step mode a drain of more than 2 x step samples makes
\* listen() clear the capture buffer and poll again, and no window whose
\* incoming chunk holds more than 2 x step samples reaches the engine.
C7_Backpressure ==
    /\ [](sub.valid /\ ~use_vad => sub.n_new <= 2 * n_samples_step)
    /\ [][(pc = "L384" /\ Len(pcmf32_new) > 2 * n_samples_step /\ pc' # pc)
            => (pc' = "L373" /\ m_audio' = <<>> /\ ~sub'.valid)]_vars

C7_Witness ==
    pc = "L384" /\ n_samples_step >= 1 /\ Len(pcmf32_new) > 2 * n_samples_step

\* C8: in VAD mode a cycle whose voice-activity test reports non-speech
\* returns false without calling the engine and without updating t_last.
C8_VadGate ==
    /\ [](sub.valid /\ use_vad => lv.is_speech)
    /\ [][(pc = "L437" /\ ~lv.is_speech /\ pc' # pc)
            => (pc' = "idle" /\ ret' = "false" /\ t_last' = t_last
                /\ ~sub.valid /\ ~sub'.valid)]_vars

C8_Witness == pc = "L437" /\ ~lv.is_speech /\ ~params.adaptive_vad

\* C9: after every adaptation step of AdaptiveVAD the threshold is within
\* [min_threshold, max_threshold]; a step adapts when the history holds at
\* least 10 energies.
C9_ThresholdBounds ==
    Len(recent_energies) >= MIN_HISTORY
        => threshold \in MIN_THRESHOLD..MAX_THRESHOLD

C9_Witness ==
    /\ pc = "none" /\ n_detect >= 1
    /\ Len(recent_energies) >= MIN_HISTORY
    /\ threshold = MIN_THRESHOLD

\* C10: prune_context_tokens leaves a sequence of at most max tokens as it
\* is (so a second pruning changes nothing), and from a longer one removes
\* the oldest Len - max tokens, keeping the others in their order.
C10_Prune ==
    n_prune >= 1 =>
        /\ Len(before) <= max_tokens => tokens = before
        /\ Len(before) > max_tokens
             => /\ Len(tokens) = max_tokens
                /\ \A i \in 1..max_tokens :
                     tokens[i] = before[Len(before) - max_tokens + i]
        /\ n_prune = 2 => tokens = before

C10_Witness ==
    /\ n_prune = 1 /\ max_tokens >= 1 /\ Len(before) > max_tokens
    /\ before[1] # before[Len(before)]

\* two characters that differ at most in case
SameLetter(c, d) == c = d \/ {c, d} = {"a", "A"} \/ {c, d} = {"b", "B"}

\* word occurs in text as a contiguous substring, case ignored
OccursIn(word, text) ==
    \E k \in 0..Len(text) :
        /\ k + Len(word) <= Len(text)
        /\ \A j \in 1..Len(word) : SameLetter(text[k + j], word[j])

\* C11: the segment loop of listen() reports a match exactly when the
\* trigger occurs, case ignored, as a contiguous substring of the text of
\* some segment of the decoded window.
C11_TriggerMatch ==
    n_trig = 1 =>
        (trig_match <=> \E i \in 1..Len(trig_segs) :
                            OccursIn(trig_word, trig_segs[i].text))

C11_Witness ==
    /\ n_trig = 1 /\ trig_match
    /\ trig_word = <<"a", "A">>
    /\ Len(trig_segs) = 2
    /\ trig_segs[1].text = <<"x">>
    /\ trig_segs[2].text = <<"x", "A", "a">>
Allocated == audio /\ ctx /\ vad
NoneAllocated == ~audio /\ ~ctx /\ ~vad

\* the last call to return was an initialization, and it failed
InitFailed == pc = "idle" /\ ops[2] = "start" /\ ~initialized

\* the stream object has not been destroyed
Alive == pc # "gone"

\* C12: while the stream object lives, initialized = true implies that the
\* capture device, the inference context and the VAD state are all
\* allocated; after a failed
\* initialization none of the three is allocated, everything acquired has
\* been released, and initialized is false.
C12_NoPartialInit ==
    /\ Alive /\ initialized => Allocated
    /\ InitFailed => NoneAllocated /\ released = acquired

C12_Witness ==
    /\ InitFailed /\ params.lang_known
    /\ acquired.audio = 1 /\ acquired.ctx = 1 /\ acquired.vad = 0
Held(r, n_acq, n_rel) == n_acq - n_rel = (IF r THEN 1 ELSE 0)

\* C13: stop() called from any state ends with initialized = false and
\* running = false and nothing allocated; whatever the sequence of calls,
\* each resource has been released exactly as often as it was acquired,
\* less the one allocation that is still held, so that none is released
\* twice or lost, and nothing is held once the stream is destroyed.
C13_StopReleasesOnce ==
    /\ pc = "idle" /\ ops[2] = "stop"
          => ~initialized /\ ~running /\ NoneAllocated /\ released = acquired
    /\ Held(audio, acquired.audio, released.audio)
    /\ Held(ctx, acquired.ctx, released.ctx)
    /\ Held(vad, acquired.vad, released.vad)
    /\ ~Alive => released = acquired

C13_Witness ==
    /\ pc = "idle" /\ ops = <<"stop", "stop">> /\ paused
    /\ acquired.vad = MaxStarts /\ released.vad = MaxStarts
\* listen_for is at one of its two entry tests
AtEntry == pc \in {"L356", "L361"}
\* listen_for is past its entry tests
InCycle == pc \notin {"ctor", "idle", "gone", "none", "L356", "L361"}

\* C14: a listen() call that starts while the stream is not initialized or
\* is paused never gets past its entry tests, and the step that leaves
\* them returns false with the capture buffer, the three audio buffers,
\* the context tokens, the iteration counter and t_last as they were and
\* no engine call made.
C14_ListenOnlyFromReady ==
    /\ [](InCycle => initialized /\ ~paused)
    /\ [][(AtEntry /\ (~initialized \/ paused) /\ pc' # pc)
            => /\ pc' \in {"idle", "L361"}
               /\ pc' = "idle" => ret' = "false"
               /\ ~sub'.valid
               /\ UNCHANGED <<m_audio, bufVars, prompt_tokens, n_iter,
                              t_last, vadVars>>]_vars

C14_Witness ==
    /\ pc = "L356" /\ ~initialized /\ ops[2] = "stop"
    /\ Len(pcmf32_old) >= 1 /\ n_iter >= 1
\* C15: when a poll of listen() (at cycle entry or in the fixed-step loop)
\* observes a quit request, the cycle ends there: running becomes false,
\* listen() returns false, and the engine is not called in that cycle.
C15_QuitAborts ==
    [][(pc \in {"L366", "L374"} /\ lv.got_quit /\ pc' # pc)
         => (~running' /\ pc' = "idle" /\ ret' = "false"
             /\ ~sub.valid /\ ~sub'.valid)]_vars

C15_Witness == pc = "L374" /\ lv.got_quit /\ running /\ n_iter >= 1
\* C16: when every attempt for a window has failed, listen() returns false
\* and leaves initialized, running, paused, the iteration counter and the
\* context tokens as they were, the stream being initialized and not
\* paused, so that a later call builds and submits a new window.
C16_FailureNotFatal ==
    /\ [](pc = "L471" => initialized /\ ~paused /\ Alive)
    /\ [][(pc = "L471" /\ pc' # pc)
            => /\ pc' = "idle" /\ ret' = "false"
               /\ UNCHANGED <<initialized, running, paused, n_iter,
                              prompt_tokens, audio, ctx, vad>>]_vars

\* a window is submitted after a cycle whose decode failed: no decode has
\* succeeded yet, and the window carries the tail left by an earlier one
C16_Witness ==
    /\ sub.valid /\ n_iter = 0 /\ ~use_vad /\ running
    /\ params.max_retry_attempts >= 1
    /\ Len(sub.win) > sub.n_new
Unplayed == m_buffer_pos < Len(m_buffer)

C18_NoSelfListening ==
    /\ [](Unplayed \/ m_is_playing => paused /\ ~m_running /\ cpc = "idle")
    /\ [][(cpc = "idle" /\ cpc' = "R575") =>
            ops = <<"pause", "play">> /\ tpc = "idle" /\ ~m_is_playing /\ ~Unplayed]_vars

C18_Witness == Unplayed /\ m_buffer_pos > 0 /\ tpc = "L86" /\ paused
\* C19: when initialization reports an unsupported language, no resource
\* has been acquired: the capture device was never opened and the inference
\* context never loaded.
LanguageRejected ==
    /\ ~params.lang_known
    /\ \/ pc = "exit" /\ ret = "unknown language"
       \/ pc = "idle" /\ ~initialized /\ cpc = "idle"

C19_ConfigErrorFirst == LanguageRejected => acquired = NoResources /\ ~audio /\ ~ctx
\* C20: in VAD mode a cycle passes the gate of line 420 only when at least
\* VAD_GATE has elapsed since the last successful decode returned, and a
\* call made earlier than that returns false at the gate.
C20_GateSinceDecode ==
    [][(pc = "L415" /\ pc' = "L424" /\ t_decoded >= 0)
          => now' - t_decoded >= VAD_GATE]_vars

\* C21: in fixed-step mode with context enabled, between cycles the context
\* tokens are the newest max_context_tokens tokens of everything the decoded
\* windows emitted, in emission order.
C21_ContextAccumulates ==
    (pc = "idle" /\ initialized /\ ~use_vad /\ ~params.no_context)
        => prompt_tokens = emitted

\* C22: in fixed-step mode no window built or handed to the engine has more
\* than n_samples_keep + n_samples_len samples.
C22_WindowBound ==
    /\ (pc \in {"L413", "L181", "L182"} /\ ~use_vad)
          => Len(pcmf32) <= n_samples_keep + n_samples_len
    /\ (sub.valid /\ ~use_vad) => Len(sub.win) <= n_samples_keep + n_samples_len

C22_Witness ==
    /\ pc = "L182" /\ ~use_vad /\ sub.valid
    /\ Len(sub.win) = n_samples_keep + n_samples_len
    /\ n_iter >= 1 /\ n_samples_keep >= 1
\* C23: an initialized stream has keep_ms <= step_ms and length_ms >= step_ms
\* whatever was configured, and nothing after the constructor changes the
\* parameters.
C23_ParamsNormalised ==
    /\ [](initialized =>
            params.keep_ms <= params.step_ms /\ params.length_ms >= params.step_ms)
    /\ [][pc # "ctor" => params' = params]_vars

C23_Witness ==
    /\ initialized /\ params.step_ms = -1 /\ params.keep_ms = -1
    /\ ops = <<"pause", "resume">> /\ n_iter >= 1
\* C24: pause() and resume() change the paused flag only on an initialized
\* stream, and a stream that has been stopped is not made ready again.
C24_Lifecycle ==
    /\ [][(cpc' # cpc /\ paused' # paused) => initialized]_vars
    /\ [][ops[2] = "stop" => ~initialized']_vars
\* C25: once a cycle has seen a quit request and cleared running, no later
\* listen() call drains the capture device or calls the engine.
C25_QuitIsFinal ==
    (initialized /\ ~running) => pc \in {"idle", "L356", "L361", "L365", "L366"}
\* C26: listen() returns true exactly from the segment loop after a
\* successful whisper_full, at the first segment in emission order whose text
\* contains the trigger and before any later segment is examined; a cycle
\* that leaves the loop otherwise had no segment with the trigger.
Hit(j) == contains_trigger(lv.segs[j].text, lv.trigger)

C26_FirstMatchWins ==
    /\ [][(ret' = "true" /\ pc # "idle" /\ pc' = "idle")
            => /\ pc = "L491" /\ lv.results # <<>>
               /\ lv.results[Len(lv.results)] = 0
               /\ lv.seg_i < Len(lv.segs) /\ Hit(lv.seg_i + 1)
               /\ \A j \in 1..lv.seg_i : ~Hit(j)]_vars
    /\ [][(pc = "L491" /\ pc' # "L491" /\ ret' # "true")
            => \A j \in 1..Len(lv.segs) : ~Hit(j)]_vars
    /\ [][(pc # "idle" /\ pc' = "idle" /\ pc # "L491") => ret' # "true"]_vars

C26_Witness ==
    /\ pc = "L491" /\ sub.valid /\ Len(lv.segs) = 2
    /\ lv.seg_i = 0 /\ Hit(1) /\ ~Hit(2)
\* C27: in fixed-step mode a cycle that completes the n_new_line-th decoded
\* window, trigger matches counted, leaves in previous_tail (pcmf32_old)
\* exactly the last n_samples_keep samples of that window; every other cycle
\* that built a window leaves the whole window there.
C27_TailRotation ==
    [][(~use_vad /\ pc \in {"L471", "L491", "L530"} /\ pc' = "idle")
          => IF pc # "L471" /\ n_iter' % n_new_line = 0
             THEN pcmf32_old' = Suffix(pcmf32, n_samples_keep)
             ELSE pcmf32_old' = pcmf32]_vars
\* C28: the context tokens never number more than max_context_tokens, in
\* particular at the start of a cycle and when they are handed to the engine.
C28_ContextBound == Len(prompt_tokens) <= params.max_context_tokens

C28_Witness ==
    /\ pc = "L182" /\ ~params.no_context /\ n_iter >= 1
    /\ Len(prompt_tokens) = params.max_context_tokens
\* C29: in fixed-step mode a window is built and submitted only from a
\* drained chunk of at least step and at most 2 x step samples, the capture
\* buffer is cleared between that drain and the building of the window, and
\* a drain of fewer samples sends listen() back to polling with nothing
\* submitted.
InBuild == pc \in {"L398", "L404", "L406", "L411", "L413"}

C29_ChunkReady ==
    /\ [](InBuild => /\ Len(pcmf32_new) >= n_samples_step
                     /\ Len(pcmf32_new) <= 2 * n_samples_step)
    /\ [](sub.valid /\ ~use_vad => /\ sub.n_new >= n_samples_step
                                   /\ sub.n_new <= 2 * n_samples_step)
    /\ [][(pc = "L384" /\ pc' = "L398") => m_audio' = <<>>]_vars
    /\ [][(pc = "L384" /\ Len(pcmf32_new) < n_samples_step /\ pc' # pc)
            => (pc' = "L373" /\ ~sub'.valid /\ m_audio' = m_audio)]_vars

C29_Witness ==
    /\ pc = "L398" /\ n_samples_step >= 1 /\ n_iter >= 1
    /\ Len(pcmf32_new) > n_samples_step /\ m_audio = <<>>
\* C30: the invoker sleeps BACKOFF_MS x n after the n-th failed attempt when
\* another attempt follows, and not after a successful attempt or after the
\* last failed one.
C30_Backoff ==
    /\ Len(rt.sleeps) = Min(rt.attempt, Max(rt.max_attempts - 1, 0))
    /\ \A i \in 1..Len(rt.sleeps) : rt.sleeps[i] = BACKOFF_MS * i
    /\ (rt.at = "done" /\ rt.returned) => Len(rt.sleeps) = Len(rt.results) - 1
    /\ (rt.at = "done" /\ ~rt.returned)
          => Len(rt.sleeps) = Max(rt.max_attempts - 1, 0)

C30_Witness ==
    /\ rt.at = "done" /\ ~rt.returned /\ rt.max_attempts = 3
    /\ rt.sleeps = <<BACKOFF_MS, 2 * BACKOFF_MS>>

\* C31: the energy history of AdaptiveVAD never holds more than HIST_SIZE
\* entries, and a detect() call that records an energy into a full history
\* drops the oldest entry, moves every other entry one place towards the
\* front and puts the recorded energy last.
C31_HistoryCapped ==
    /\ [](Len(recent_energies) <= HIST_SIZE)
    /\ [][n_detect' # n_detect /\ Len(recent_energies) = HIST_SIZE =>
            IF energy' > ENERGY_THOLD
            THEN /\ Len(recent_energies') = HIST_SIZE
                 /\ \A i \in 1..(HIST_SIZE - 1) :
                        recent_energies'[i] = recent_energies[i + 1]
                 /\ recent_energies'[HIST_SIZE] = energy'
            ELSE recent_energies' = recent_energies]_vars

\* a full history whose entries HIST_SIZE - 3 and HIST_SIZE - 2 differ: the
\* entries after the first were equal at the start, so an energy recorded
\* later has been moved forward by an eviction
C31_Witness ==
    /\ pc = "none" /\ Len(recent_energies) = HIST_SIZE
    /\ recent_energies[HIST_SIZE - 3] # recent_energies[HIST_SIZE - 2]
    /\ recent_energies[1] # recent_energies[HIST_SIZE]

\* C32: a detect() call whose energy does not exceed the energy floor changes
\* neither the history nor the threshold, and a call that records an energy
\* leaves the threshold unchanged when the history, that energy included,
\* holds fewer than MIN_HISTORY entries.
C32_DetectFrame ==
    [][n_detect' # n_detect =>
          /\ energy' <= ENERGY_THOLD =>
                recent_energies' = recent_energies /\ threshold' = threshold
          /\ energy' > ENERGY_THOLD /\ Len(recent_energies') < MIN_HISTORY =>
                threshold' = threshold]_vars

\* a call below the floor made right after a call that recorded the ninth
\* energy
C32_Witness ==
    /\ pc = "none" /\ n_detect >= 2 /\ energy <= ENERGY_THOLD
    /\ Len(recent_energies) = MIN_HISTORY - 1

\* C39: the sorted history has q1 <= median <= q3, so the retuning target lies
\* between 0.5 and 0.8; an AdaptiveVAD built with the default initial
\* threshold keeps its threshold between 0.5 and 0.8 after any detect()
\* calls, above the lower clamp.
C39_ThresholdRange ==
    /\ threshold \in TARGET_BASE..(TARGET_BASE + TARGET_SPAN)
    /\ threshold > MIN_THRESHOLD
    /\ Len(recent_energies) >= MIN_HISTORY =>
          LET sorted == SortedSeq(recent_energies)
          IN  /\ Quartile(sorted, 1) <= Quartile(sorted, 2)
              /\ Quartile(sorted, 2) <= Quartile(sorted, 3)
              /\ Target(sorted) \in TARGET_BASE..(TARGET_BASE + TARGET_SPAN)

\* a full history of mixed energies after retuning steps that moved the
\* threshold away from its initial value
C39_Witness ==
    /\ pc = "none" /\ n_detect >= 1 /\ energy > ENERGY_THOLD
    /\ Len(recent_energies) = HIST_SIZE
    /\ recent_energies[1] # recent_energies[HIST_SIZE]
    /\ threshold # INITIAL_THOLD

\* C33: under a fair scheduler and a capture device that keeps delivering
\* while it runs, the fixed-step polling loop of listen_for is always left:
\* the call returns, or goes on to build a window.
C33_PollingExits == (pc \in PollLoop) ~> (pc \notin PollLoop)

\* about to sleep with half a chunk, a pause under way on the other thread
C33_Witness ==
    /\ pc = "L395" /\ n_samples_step = MaxStep /\ Len(pcmf32_new) = 1
    /\ cpc \in PauseSteps

\* C34: whatever the interleaving of play() calls and audio callbacks, the
\* samples handed to the device followed by the unread part of the buffer are
\* the queued samples in play() order, and the read position stays within
\* the buffer.
C34_PlaybackFifo ==
    /\ m_buffer_pos <= Len(m_buffer)
    /\ handed \o SubSeq(m_buffer, m_buffer_pos + 1, Len(m_buffer)) = queued

\* a second vector queued while the first was half played, its first sample
\* handed over
C34_Witness ==
    /\ pc = "none" /\ m_is_playing
    /\ Len(queued) = MaxQueued /\ queued[1] # queued[2] /\ queued[3] # queued[4]
    /\ Len(handed) = 3 /\ m_buffer_pos = 3 /\ Len(m_buffer) = MaxQueued

\* C35: wait_to_finish returns only when playback is over, the buffer empty,
\* the read position 0 and every queued sample handed to the device; and when
\* the device keeps calling back and the waiting thread is scheduled, a call
\* of wait_to_finish always returns.
C35_WaitReturns ==
    /\ [][tpc # "idle" /\ tpc' = "idle" =>
            /\ ~m_is_playing' /\ m_buffer' = <<>> /\ m_buffer_pos' = 0
            /\ handed' = queued']_vars
    /\ (tpc # "idle") ~> (tpc = "idle")

\* the waiting thread, blocked while two or more samples were played, is
\* awake again and playback is over
C35_Witness ==
    /\ pc = "none" /\ tpc = "woken" /\ ~m_is_playing
    /\ Len(queued) >= 2 /\ handed = queued

\* C36: pause() sets the paused flag before it stops the capture device and
\* resume() clears the flag only after it has restarted the device, so an
\* initialized stream whose paused flag is false has its capture device
\* running.
C36_FlagBracketsDevice ==
    /\ [](initialized /\ ~paused => audio /\ m_running)
    /\ [][/\ m_running /\ ~m_running' /\ initialized' => paused
          /\ paused /\ ~paused' /\ initialized => m_running /\ m_running']_vars

\* resume() about to clear the flag, the device already restarted, while
\* listen_for sleeps in its polling loop
C36_Witness ==
    /\ cpc = "R582" /\ paused /\ m_running /\ initialized
    /\ pc = "L395"

\* listen_for is about to call into the capture device, is inside
\* whisper_full, or is about to call AdaptiveVAD::detect
UsesAudio ==
    \/ pc \in {"L382", "L424"}
    \/ pc = "L384" /\ (backlogged(Len(pcmf32_new)) \/ chunk_ready(Len(pcmf32_new)))
UsesCtx == pc = "L182"
UsesVad == pc = "L427" /\ params.adaptive_vad

\* C37: in every interleaving of stop_stream with a listen_for running on
\* another thread, listen_for uses the capture device, the inference context
\* and the VAD state only while stop_stream has not released them.
C37_NoUseAfterStop ==
    /\ UsesAudio => audio
    /\ UsesCtx => ctx
    /\ UsesVad => vad

\* C38: after stop_stream followed by a start_stream that succeeded, the
\* previous tail and the context tokens are empty, so that the first window
\* built afterwards holds no sample captured before the stop.
C38_NothingSurvivesStop ==
    [][ops[2] = "stop" /\ ops'[2] = "start" /\ initialized' =>
          pcmf32_old' = <<>> /\ prompt_tokens' = <<>>]_vars

\* what a caller, the engine or the device can see of a stream: everything
\* but the time it spent asleep and the counter, which the free-function
\* API keeps in a static of listen_for
Observable(st) == [f \in (DOMAIN st) \ {"slept", "n_iter"} |-> st[f]]

====
